---- MODULE Spec2Model ----
(***************************************************************************)
(* A model of mcrs, a client for the line-oriented text protocol of a      *)
(* Minecraft server: the byte cursor (BufReader), the numeric field        *)
(* decoder (IntegerStream::read), the typed accessors (ResponseStream),    *)
(* the streaming grid collectors (ChunkStream, HeightsStream), the grids   *)
(* they collect into (Chunk, Heights) and the Connection operations that   *)
(* drive them.                                                             *)
(*                                                                         *)
(* Bytes are their ASCII codes.  An i32 is an integer of                   *)
(* [I32_MIN, I32_MAX]; arithmetic on it is done on 16-bit halves so that   *)
(* a wrapping result is computed exactly as two's complement does.  An     *)
(* arithmetic overflow aborts (panics) in a build with overflow checks and *)
(* wraps in a build without them: overflow_checks holds which build runs.  *)
(***************************************************************************)
EXTENDS Integers, Sequences, FiniteSets, TLC

VARIABLES
    reader,           \* Connection.reader: BufReader {inner, buffer, index, length}
    written,          \* the bytes written to Connection.stream, in order
    stream,           \* the live ChunkStream / HeightsStream, or NoStream
    result,           \* what the last operation returned
    yielded,          \* the items the live stream has yielded with next, in order
    overflow_checks,  \* TRUE: arithmetic overflow panics; FALSE: it wraps
    sent,             \* what the peer put on the wire for the last command
    field,            \* the field handed to IntegerStream::read (decoder runs)
    called,           \* the reader accessor the last next called, and for which element
    pc                \* position of the run

vars == <<reader, written, stream, result, yielded, overflow_checks, sent, field,
          called, pc>>

(***************************************************************************)
(* Bounds of the model.                                                    *)
(***************************************************************************)
\* the two corners of a query lie in a box of side MaxCoord + 1
MaxCoord == 1
\* the transport delivers a response in reads of 1 .. MaxSplit bytes, or whole
MaxSplit == 1
\* small magnitudes 0 .. MaxMagnitude of a decoded field, beside the boundary ones
MaxMagnitude == 11
\* the values of a response count up from a base of at most MaxBase + 1
MaxBase == 1
\* the decimals of a field are runs of at most MaxDecimals digits
MaxDecimals == 2

(***************************************************************************)
(* Bytes.                                                                  *)
(***************************************************************************)
BYTE_MINUS == 45
BYTE_PLUS == 43
BYTE_DOT == 46
BYTE_ZERO == 48
BYTE_NINE == 57
BYTE_COMMA == 44
BYTE_SEMICOLON == 59
BYTE_NEWLINE == 10
BYTE_LPAREN == 40
BYTE_RPAREN == 41

BUFFER_SIZE == 8192

\* input fields longer than this count as long: the per-field length cap
\* the specification speaks of (IntegerStream::read has none)
FIELD_CAP == 48

I32_MAX == 2147483647
I32_MIN == (0 - I32_MAX) - 1
HALF == 65536

Min(a, b) == IF a < b THEN a ELSE b
Max(a, b) == IF a < b THEN b ELSE a

(***************************************************************************)
(* i32 arithmetic.  wrapping_* compute the two's complement result on      *)
(* 16-bit halves; *_overflows tell whether the exact result leaves i32,    *)
(* which is when a build with overflow checks panics.                      *)
(***************************************************************************)
FromHalves(hi, lo) ==
    IF hi < HALF \div 2 THEN hi * HALF + lo ELSE (hi - HALF) * HALF + lo

\* a * k in i32, wrapping; 0 <= k <= 10
wrapping_mul(a, k) ==
    FromHalves((((a \div HALF) % HALF) * k + ((a % HALF) * k) \div HALF) % HALF,
               ((a % HALF) * k) % HALF)

mul_overflows(a, k) ==
    /\ k > 0
    /\ \/ a > I32_MAX \div k
       \/ a < 0 - (I32_MAX \div k) - (IF (I32_MAX % k) = k - 1 THEN 1 ELSE 0)

\* a + d in i32, wrapping
wrapping_add(a, d) ==
    FromHalves(((a \div HALF) + (d \div HALF)
                + ((a % HALF) + (d % HALF)) \div HALF) % HALF,
               ((a % HALF) + (d % HALF)) % HALF)

add_overflows(a, d) ==
    \/ d > 0 /\ a > I32_MAX - d
    \/ d < 0 /\ a < I32_MIN - d

\* a - b in i32, wrapping
wrapping_sub(a, b) ==
    FromHalves(((a \div HALF) - (b \div HALF)
                + ((a % HALF) - (b % HALF)) \div HALF) % HALF,
               ((a % HALF) - (b % HALF)) % HALF)

sub_overflows(a, b) ==
    \/ b > 0 /\ a < I32_MIN + b
    \/ b < 0 /\ a > I32_MAX + b

\* -a in i32, wrapping: i32::MIN is its own negation
wrapping_neg(a) == IF a = I32_MIN THEN I32_MIN ELSE 0 - a

neg_overflows(a) == a = I32_MIN

(***************************************************************************)
(* Results.  Ok carries a value and, for a field, the terminator that      *)
(* closed it; Err an Error of error.rs; Panic an abort of the thread.      *)
(***************************************************************************)
Ok(v, t) == [tag |-> "Ok", value |-> v, terminator |-> t, error |-> "None",
             expected |-> "None", actual |-> "None"]
Err(e) == [tag |-> "Err", value |-> 0, terminator |-> "None", error |-> e,
           expected |-> "None", actual |-> "None"]
UnexpectedTerminator(e, a) ==
    [tag |-> "Err", value |-> 0, terminator |-> "None",
     error |-> "UnexpectedTerminator", expected |-> e, actual |-> a]
Panic(m) == [tag |-> "Panic", value |-> 0, terminator |-> "None", error |-> m,
             expected |-> "None", actual |-> "None"]
NoResult == [tag |-> "None", value |-> 0, terminator |-> "None", error |-> "None",
             expected |-> "None", actual |-> "None"]

(***************************************************************************)
(* let v = value; written with a parameter so that value is one            *)
(* expression however often v is used.                                     *)
(***************************************************************************)
Let(value, In(_)) == In(value)

(***************************************************************************)
(* usize and u32.  A u32 is held as its 32-bit word read as an integer     *)
(* (the words from 2^31 on are the negative ones), so that `as i32` is     *)
(* the identity on words.  A usize is 64 bits wide and is held as a        *)
(* natural number: its digits base LIMB, lowest first, no leading zero;    *)
(* the arithmetic below is exact, and the width comes in where a result    *)
(* is compared with 2^64 or reduced modulo 2^32.                           *)
(***************************************************************************)
LIMB == 32768
LIMB_BITS == 15

Limb(a, i) == IF i <= Len(a) THEN a[i] ELSE 0

Trim(a) ==
    IF \A i \in 1..Len(a) : a[i] = 0 THEN <<>>
    ELSE SubSeq(a, 1, CHOOSE i \in 1..Len(a) :
                          a[i] # 0 /\ \A j \in (i + 1)..Len(a) : a[j] = 0)

\* the natural number n, 0 <= n < 2^31
NatOf(n) ==
    IF n = 0 THEN <<>>
    ELSE IF n < LIMB THEN <<n>>
    ELSE IF n < LIMB * LIMB THEN <<n % LIMB, n \div LIMB>>
    ELSE <<n % LIMB, (n \div LIMB) % LIMB, n \div (LIMB * LIMB)>>

NatFits(a) == Len(a) <= 2 \/ (Len(a) = 3 /\ a[3] < 2)

\* the integer a, for a < 2^31
IntOf(a) == Limb(a, 1) + LIMB * Limb(a, 2) + LIMB * LIMB * Limb(a, 3)

RECURSIVE NatAddFrom(_, _, _, _)
NatAddFrom(a, b, i, carry) ==
    IF i > Max(Len(a), Len(b)) THEN (IF carry = 0 THEN <<>> ELSE <<carry>>)
    ELSE <<(Limb(a, i) + Limb(b, i) + carry) % LIMB>>
         \o NatAddFrom(a, b, i + 1, (Limb(a, i) + Limb(b, i) + carry) \div LIMB)

\* numbers of one digit are added and multiplied as integers
NatAdd(a, b) ==
    IF Len(a) <= 1 /\ Len(b) <= 1 THEN NatOf(Limb(a, 1) + Limb(b, 1))
    ELSE NatAddFrom(a, b, 1, 0)

\* a - b for a >= b
RECURSIVE NatSubFrom(_, _, _, _)
NatSubFrom(a, b, i, borrow) ==
    IF i > Len(a) THEN <<>>
    ELSE <<(a[i] - Limb(b, i) - borrow) % LIMB>>
         \o NatSubFrom(a, b, i + 1,
                       IF a[i] - Limb(b, i) - borrow < 0 THEN 1 ELSE 0)

NatSub(a, b) == Trim(NatSubFrom(a, b, 1, 0))

NatLess(a, b) ==
    IF Len(a) # Len(b) THEN Len(a) < Len(b)
    ELSE \E i \in 1..Len(a) :
            a[i] < b[i] /\ \A j \in (i + 1)..Len(a) : a[j] = b[j]

RECURSIVE NatMulLimbFrom(_, _, _, _)
NatMulLimbFrom(a, d, i, carry) ==
    IF i > Len(a) THEN (IF carry = 0 THEN <<>> ELSE <<carry>>)
    ELSE <<(a[i] * d + carry) % LIMB>>
         \o NatMulLimbFrom(a, d, i + 1, (a[i] * d + carry) \div LIMB)

RECURSIVE NatMulFrom(_, _, _)
NatMulFrom(a, b, j) ==
    IF j > Len(b) THEN <<>>
    ELSE NatAdd(Trim([i \in 1..(j - 1) |-> 0] \o NatMulLimbFrom(a, b[j], 1, 0)),
                NatMulFrom(a, b, j + 1))

NatMul(a, b) ==
    IF Len(a) <= 1 /\ Len(b) <= 1 THEN NatOf(Limb(a, 1) * Limb(b, 1))
    ELSE NatMulFrom(a, b, 1)

\* bit k of a, the lowest being bit 0
NatBit(a, k) == (a[k \div LIMB_BITS + 1] \div (2 ^ (k % LIMB_BITS))) % 2

\* one step of the long division of a by b, at bit k of a
NatDivTurn(st, a, b, k) ==
    Let(NatAdd(NatAdd(st.r, st.r), NatOf(NatBit(a, k))), LAMBDA r :
        IF NatLess(r, b) THEN [q |-> NatAdd(st.q, st.q), r |-> r]
        ELSE [q |-> NatAdd(NatAdd(st.q, st.q), NatOf(1)), r |-> NatSub(r, b)])

\* the steps at the bits hi down to lo, in this order: the remainder so far
\* is looked at before the next steps are taken; it never outgrows b
RECURSIVE NatDivTurns(_, _, _, _, _)
NatDivTurns(st, a, b, hi, lo) ==
    IF Len(st.r) > Len(b) THEN st
    ELSE IF hi = lo THEN NatDivTurn(st, a, b, hi)
    ELSE NatDivTurns(NatDivTurns(st, a, b, hi, lo + (hi - lo + 1) \div 2),
                     a, b, lo + (hi - lo + 1) \div 2 - 1, lo)

\* quotient and remainder of a by b, for b > 0
NatDivMod(a, b) ==
    IF NatLess(a, b) THEN [q |-> <<>>, r |-> a]
    ELSE IF NatFits(a)
    THEN [q |-> NatOf(IntOf(a) \div IntOf(b)), r |-> NatOf(IntOf(a) % IntOf(b))]
    ELSE NatDivTurns([q |-> <<>>, r |-> <<>>], a, b, LIMB_BITS * Len(a) - 1, 0)

\* 2^31, 2^32 and 2^64
TWO31 == <<0, 0, 2>>
TWO32 == <<0, 0, 4>>
TWO64 == <<0, 0, 0, 0, 16>>

\* the outcome of an arithmetic operation: a value, or the abort of a build
\* with overflow checks
Value(v) == [panic |-> FALSE, value |-> v, error |-> "None"]
Abort(m) == [panic |-> TRUE, value |-> 0, error |-> m]

\* let v = res; with the abort passed on
Checked(res, Then(_)) == IF res.panic THEN res ELSE Then(res.value)

i32_sub(a, b, checks) ==
    IF ~sub_overflows(a, b) THEN Value(a - b)
    ELSE IF checks THEN Abort("attempt to subtract with overflow")
    ELSE Value(wrapping_sub(a, b))

i32_add(a, b, checks) ==
    IF ~add_overflows(a, b) THEN Value(a + b)
    ELSE IF checks THEN Abort("attempt to add with overflow")
    ELSE Value(wrapping_add(a, b))

\* the casts
u32_as_i32(w) == w

u32_as_usize(w) ==
    IF w >= 0 THEN NatOf(w) ELSE NatAdd(NatOf(w - I32_MIN), TWO31)

\* the u32 word of a natural number below 2^32
u32_word(n) ==
    IF NatLess(n, TWO31) THEN IntOf(n) ELSE IntOf(NatSub(n, TWO31)) + I32_MIN

usize_as_u32(n) == u32_word(NatDivMod(n, TWO32).r)

usize_as_i32(n) == u32_as_i32(usize_as_u32(n))

\* sign extension: a negative c is 2^64 - |c|
i32_as_usize(c) ==
    IF c >= 0 THEN NatOf(c)
    ELSE NatSub(TWO64, IF c = I32_MIN THEN TWO31 ELSE NatOf(0 - c))

\* the result n of exact arithmetic as a value of the width whose 2^w is
\* bound
Narrow(n, bound, checks, message) ==
    IF NatLess(n, bound) THEN Value(n)
    ELSE IF checks THEN Abort(message)
    ELSE Value(NatDivMod(n, bound).r)

usize_add(a, b, checks) ==
    Narrow(NatAdd(a, b), TWO64, checks, "attempt to add with overflow")

usize_mul(a, b, checks) ==
    Narrow(NatMul(a, b), TWO64, checks, "attempt to multiply with overflow")

usize_div(a, b) ==
    IF b = <<>> THEN Abort("attempt to divide by zero")
    ELSE Value(NatDivMod(a, b).q)

usize_rem(a, b) ==
    IF b = <<>>
    THEN Abort("attempt to calculate the remainder with a divisor of zero")
    ELSE Value(NatDivMod(a, b).r)

\* words whose sum or product stays below 2^31 are added and multiplied
\* as integers
u32_add(a, b, checks) ==
    IF a >= 0 /\ b >= 0 /\ a <= I32_MAX - b THEN Value(a + b)
    ELSE
    Checked(Narrow(NatAdd(u32_as_usize(a), u32_as_usize(b)), TWO32, checks,
                   "attempt to add with overflow"),
            LAMBDA n : Value(u32_word(n)))

u32_mul(a, b, checks) ==
    IF a >= 0 /\ b >= 0 /\ (a = 0 \/ b <= I32_MAX \div a) THEN Value(a * b)
    ELSE
    Checked(Narrow(NatMul(u32_as_usize(a), u32_as_usize(b)), TWO32, checks,
                   "attempt to multiply with overflow"),
            LAMBDA n : Value(u32_word(n)))

\* the abort of an operation as a result
Aborted(res) == Panic(res.error)

IsPanic(r) == "tag" \in DOMAIN r /\ r.tag = "Panic"

(***************************************************************************)
(* BufReader.  inner is the source: the reads it will deliver, in order,   *)
(* each a non-empty sequence of bytes; once it is empty a read returns 0.  *)
(* buffer holds the bytes of the last refill, buffer[1 .. length].         *)
(***************************************************************************)
USIZE_MAX == 2147483647

BufReader_new(inner) ==
    [inner |-> inner, buffer |-> <<>>, index |-> USIZE_MAX, length |-> 0]

\* inner.read(&mut self.buffer): at most BUFFER_SIZE bytes of the next delivery
inner_read(inner) ==
    IF inner = <<>> THEN [bytes |-> <<>>, inner |-> <<>>]
    ELSE IF Len(Head(inner)) <= BUFFER_SIZE
    THEN [bytes |-> Head(inner), inner |-> Tail(inner)]
    ELSE [bytes |-> SubSeq(Head(inner), 1, BUFFER_SIZE),
          inner |-> <<SubSeq(Head(inner), BUFFER_SIZE + 1, Len(Head(inner)))>>
                    \o Tail(inner)]

\* peek that refills one byte early
BufReader_peek_refill_early(rd) ==
    IF rd.index >= rd.length - 1
    THEN Let(inner_read(rd.inner), LAMBDA got :
             IF Len(got.bytes) = 0
             THEN [rd |-> rd, ok |-> FALSE, byte |-> 0]
             ELSE [rd |-> [inner |-> got.inner, buffer |-> got.bytes,
                           index |-> 0, length |-> Len(got.bytes)],
                   ok |-> TRUE, byte |-> got.bytes[1]])
    ELSE [rd |-> rd, ok |-> TRUE, byte |-> rd.buffer[rd.index + 1]]

\* peek that resets the cursor before it looks at bytes_read
BufReader_peek_reset_first(rd) ==
    IF rd.index >= rd.length
    THEN Let(inner_read(rd.inner), LAMBDA got :
             IF Len(got.bytes) = 0
             THEN [rd |-> [rd EXCEPT !.index = 0, !.length = 0],
                   ok |-> FALSE, byte |-> 0]
             ELSE [rd |-> [inner |-> got.inner, buffer |-> got.bytes,
                           index |-> 0, length |-> Len(got.bytes)],
                   ok |-> TRUE, byte |-> got.bytes[1]])
    ELSE [rd |-> rd, ok |-> TRUE, byte |-> rd.buffer[rd.index + 1]]

BufReader_peek(rd) ==
    IF rd.index >= rd.length
    THEN Let(inner_read(rd.inner), LAMBDA got :
             IF Len(got.bytes) = 0
             THEN [rd |-> rd, ok |-> FALSE, byte |-> 0]
             ELSE [rd |-> [inner |-> got.inner, buffer |-> got.bytes,
                           index |-> 0, length |-> Len(got.bytes)],
                   ok |-> TRUE, byte |-> got.bytes[1]])
    ELSE [rd |-> rd, ok |-> TRUE, byte |-> rd.buffer[rd.index + 1]]

BufReader_next(rd) ==
    Let(BufReader_peek(rd), LAMBDA p :
        IF p.ok
        THEN [rd |-> [p.rd EXCEPT !.index = p.rd.index + 1],
              ok |-> TRUE, byte |-> p.byte]
        ELSE p)

(***************************************************************************)
(* The bytes a reader has not handed out yet: the rest of its buffer and   *)
(* what its source will still deliver.                                     *)
(***************************************************************************)
RECURSIVE Flatten(_)
Flatten(seqs) ==
    IF seqs = <<>> THEN <<>>
    ELSE IF Len(seqs) = 1 THEN seqs[1]
    ELSE Flatten(SubSeq(seqs, 1, Len(seqs) \div 2))
         \o Flatten(SubSeq(seqs, Len(seqs) \div 2 + 1, Len(seqs)))

UnreadBytes(rd) ==
    (IF rd.index < rd.length THEN SubSeq(rd.buffer, rd.index + 1, rd.length)
     ELSE <<>>)
    \o Flatten(rd.inner)

(***************************************************************************)
(* Terminator.                                                             *)
(***************************************************************************)
Terminator_try_from(byte) ==
    IF byte = BYTE_COMMA THEN "Comma"
    ELSE IF byte = BYTE_SEMICOLON THEN "Semicolon"
    ELSE IF byte = BYTE_NEWLINE THEN "Newline"
    ELSE "Invalid"

expect_terminator(r, expected) ==
    IF r.tag # "Ok" THEN r
    ELSE IF r.terminator # expected
         THEN UnexpectedTerminator(expected, r.terminator)
         ELSE Ok(r.value, "None")

(***************************************************************************)
(* IntegerStream::read.  Every operator returns the reader as the call     *)
(* leaves it (rd) beside what it found.                                    *)
(***************************************************************************)
\* a digit test without its upper end
IsDigit_no_upper(byte) == byte >= BYTE_ZERO

IsDigit(byte) == byte >= BYTE_ZERO /\ byte <= BYTE_NINE

\* integer *= 10; integer += digit;
accumulate(integer, digit, checks) ==
    IF checks /\ mul_overflows(integer, 10)
    THEN [panic |-> TRUE, value |-> 0]
    ELSE Let(wrapping_mul(integer, 10), LAMBDA m :
             IF checks /\ add_overflows(m, digit)
             THEN [panic |-> TRUE, value |-> 0]
             ELSE [panic |-> FALSE, value |-> wrapping_add(m, digit)])

\* how many turns a loop over the bytes of rd can take: a turn consumes a
\* byte or leaves the loop
Turns(rd) == Len(UnreadBytes(rd)) + 1

\* a turn of the digit loop that leaves it once FIELD_CAP digits are taken
digits_turn_capped(st, checks) ==
    Let(BufReader_peek(st.rd), LAMBDA p :
        IF ~p.ok THEN [st EXCEPT !.rd = p.rd, !.tag = "Eof"]
        ELSE IF ~IsDigit(p.byte) \/ st.len >= FIELD_CAP
        THEN [st EXCEPT !.rd = p.rd, !.tag = "Break"]
        ELSE Let(accumulate(st.integer, p.byte - BYTE_ZERO, checks), LAMBDA a :
                 IF a.panic
                 THEN [st EXCEPT !.rd = BufReader_next(p.rd).rd, !.tag = "Panic"]
                 ELSE [rd |-> BufReader_next(p.rd).rd, tag |-> "Loop",
                       integer |-> a.value, len |-> st.len + 1]))

\* one turn of the loop "take digits until any non-digit character is
\* peeked"; st is {rd, tag, integer, len}, tag "Loop" while the loop runs
digits_turn(st, checks) ==
    Let(BufReader_peek(st.rd), LAMBDA p :
        IF ~p.ok THEN [st EXCEPT !.rd = p.rd, !.tag = "Eof"]
        ELSE IF ~IsDigit(p.byte) THEN [st EXCEPT !.rd = p.rd, !.tag = "Break"]
        ELSE Let(accumulate(st.integer, p.byte - BYTE_ZERO, checks), LAMBDA a :
                 IF a.panic
                 THEN [st EXCEPT !.rd = BufReader_next(p.rd).rd, !.tag = "Panic"]
                 ELSE [rd |-> BufReader_next(p.rd).rd, tag |-> "Loop",
                       integer |-> a.value, len |-> st.len + 1]))

\* up to n turns of the digit loop, one after the other
RECURSIVE digits_turns(_, _, _)
digits_turns(st, n, checks) ==
    IF st.tag # "Loop" THEN st
    ELSE IF n <= 1 THEN digits_turn(st, checks)
    ELSE digits_turns(digits_turns(st, n \div 2, checks), n - n \div 2, checks)

take_digits(rd, integer, len, checks) ==
    digits_turns([rd |-> rd, tag |-> "Loop", integer |-> integer, len |-> len],
                 Turns(rd), checks)

\* one turn of the loop over the digits that follow the decimal point
decimals_turn(st) ==
    Let(BufReader_peek(st.rd), LAMBDA p :
        IF ~p.ok THEN [st EXCEPT !.rd = p.rd, !.tag = "Eof"]
        ELSE IF ~IsDigit(p.byte) THEN [st EXCEPT !.rd = p.rd, !.tag = "Break"]
        ELSE [rd |-> BufReader_next(p.rd).rd, tag |-> "Loop",
              is_integer |-> st.is_integer /\ p.byte = BYTE_ZERO])

RECURSIVE decimals_turns(_, _)
decimals_turns(st, n) ==
    IF st.tag # "Loop" THEN st
    ELSE IF n <= 1 THEN decimals_turn(st)
    ELSE decimals_turns(decimals_turns(st, n \div 2), n - n \div 2)

take_decimals(rd, is_integer) ==
    decimals_turns([rd |-> rd, tag |-> "Loop", is_integer |-> is_integer],
                   Turns(rd))

\* T::try_from(integer) for the two targets, i32 and u32
try_into(integer, T) == T = "i32" \/ integer >= 0

\* "check and consume byte following integer", then narrow to T
read_terminator(rd, integer, T) ==
    Let(BufReader_next(rd), LAMBDA n :
        IF ~n.ok THEN [rd |-> n.rd, r |-> Err("UnexpectedEof")]
        ELSE IF Terminator_try_from(n.byte) = "Invalid"
        THEN [rd |-> n.rd, r |-> Err("InvalidDigit")]
        ELSE IF ~try_into(integer, T) THEN [rd |-> n.rd, r |-> Err("Overflow")]
        ELSE [rd |-> n.rd, r |-> Ok(integer, Terminator_try_from(n.byte))])

\* "ensure number is always rounded down, NOT truncated"
round_down(integer, sign, is_integer, checks) ==
    IF ~is_integer /\ sign < 0
    THEN IF checks /\ add_overflows(integer, 0 - 1)
         THEN [panic |-> TRUE, value |-> 0]
         ELSE [panic |-> FALSE, value |-> wrapping_add(integer, 0 - 1)]
    ELSE [panic |-> FALSE, value |-> integer]

\* "decimal point and following digits", then the terminator
read_decimals(rd, integer, sign, T, checks) ==
    Let(BufReader_peek(rd), LAMBDA p :
        IF ~p.ok THEN [rd |-> p.rd, r |-> Err("UnexpectedEof")]
        ELSE IF p.byte # BYTE_DOT THEN read_terminator(p.rd, integer, T)
        ELSE Let(take_decimals(BufReader_next(p.rd).rd, TRUE), LAMBDA d :
                 IF d.tag = "Eof" THEN [rd |-> d.rd, r |-> Err("UnexpectedEof")]
                 ELSE Let(round_down(integer, sign, d.is_integer, checks), LAMBDA f :
                          IF f.panic
                          THEN [rd |-> d.rd,
                                r |-> Panic("attempt to subtract with overflow")]
                          ELSE read_terminator(d.rd, f.value, T))))

\* integer *= sign;
apply_sign(integer, sign, checks) ==
    IF sign > 0 THEN [panic |-> FALSE, value |-> integer]
    ELSE IF checks /\ neg_overflows(integer) THEN [panic |-> TRUE, value |-> 0]
    ELSE [panic |-> FALSE, value |-> wrapping_neg(integer)]

\* the digits read without the test of len
read_digits_any_len(rd, sign, T, checks) ==
    Let(take_digits(rd, 0, 0, checks), LAMBDA d :
        IF d.tag = "Eof" THEN [rd |-> d.rd, r |-> Err("UnexpectedEof")]
        ELSE IF d.tag = "Panic"
        THEN [rd |-> d.rd, r |-> Panic("attempt to multiply or add with overflow")]
        ELSE read_decimals(d.rd, d.integer, sign, T, checks))

\* the digits, once the sign is read: the run, the sign applied, the rest
read_digits(rd, sign, T, checks) ==
    Let(take_digits(rd, 0, 0, checks), LAMBDA d :
        IF d.tag = "Eof" THEN [rd |-> d.rd, r |-> Err("UnexpectedEof")]
        ELSE IF d.tag = "Panic"
        THEN [rd |-> d.rd, r |-> Panic("attempt to multiply or add with overflow")]
        ELSE IF d.len = 0 THEN [rd |-> d.rd, r |-> Err("Empty")]
        ELSE Let(apply_sign(d.integer, sign, checks), LAMBDA s :
                 IF s.panic
                 THEN [rd |-> d.rd, r |-> Panic("attempt to multiply with overflow")]
                 ELSE read_decimals(d.rd, s.value, sign, T, checks)))

IntegerStream_read(rd, T, checks) ==
    Let(BufReader_peek(rd), LAMBDA p :
        IF ~p.ok THEN [rd |-> p.rd, r |-> Err("UnexpectedEof")]
        ELSE IF p.byte = BYTE_MINUS
        THEN read_digits(BufReader_next(p.rd).rd, 0 - 1, T, checks)
        ELSE IF p.byte = BYTE_PLUS
        THEN read_digits(BufReader_next(p.rd).rd, 1, T, checks)
        ELSE read_digits(p.rd, 1, T, checks))

(***************************************************************************)
(* ResponseStream: the typed accessors.  The ? after read returns its      *)
(* error (or abort) at once; the ? after expect_terminator likewise.       *)
(***************************************************************************)
\* the ? operator: an error (or abort) of res is returned at once
Try(res, Then(_)) == IF res.r.tag # "Ok" THEN res ELSE Then(res)

read_expect(rd, T, expected, checks) ==
    Let(IntegerStream_read(rd, T, checks), LAMBDA f :
        [rd |-> f.rd, r |-> expect_terminator(f.r, expected)])

next_i32(rd, checks) == read_expect(rd, "i32", "Comma", checks)

final_i32(rd, checks) == read_expect(rd, "i32", "Newline", checks)

\* a block whose terminators are looked at once both fields are read
read_block_late_expect(rd, last, checks) ==
    Try(IntegerStream_read(rd, "u32", checks), LAMBDA id :
    Try(IntegerStream_read(id.rd, "u32", checks), LAMBDA modifier :
        IF expect_terminator(id.r, "Comma").tag # "Ok"
        THEN [rd |-> modifier.rd, r |-> expect_terminator(id.r, "Comma")]
        ELSE IF expect_terminator(modifier.r, last).tag # "Ok"
        THEN [rd |-> modifier.rd, r |-> expect_terminator(modifier.r, last)]
        ELSE [rd |-> modifier.rd,
              r |-> Ok([id |-> id.r.value, modifier |-> modifier.r.value],
                       "None")]))

read_block(rd, last, checks) ==
    Try(read_expect(rd, "u32", "Comma", checks), LAMBDA id :
    Try(read_expect(id.rd, "u32", last, checks), LAMBDA modifier :
        [rd |-> modifier.rd,
         r |-> Ok([id |-> id.r.value, modifier |-> modifier.r.value], "None")]))

next_block(rd, checks) == read_block(rd, "Semicolon", checks)

final_block(rd, checks) == read_block(rd, "Newline", checks)

final_coordinate(rd, checks) ==
    Try(read_expect(rd, "i32", "Comma", checks), LAMBDA x :
    Try(read_expect(x.rd, "i32", "Comma", checks), LAMBDA y :
    Try(read_expect(y.rd, "i32", "Newline", checks), LAMBDA z :
        [rd |-> z.rd,
         r |-> Ok([x |-> x.r.value, y |-> y.r.value, z |-> z.r.value], "None")])))

(***************************************************************************)
(* Decimal text.  A digit run is a sequence of digits 0 .. 9.              *)
(***************************************************************************)
RECURSIVE to_digits(_)
to_digits(n) ==
    IF n < 10 THEN <<n>> ELSE Append(to_digits(n \div 10), n % 10)

\* the digit run of the number one above that of d
RECURSIVE DecimalSucc(_)
DecimalSucc(d) ==
    IF d = <<>> THEN <<1>>
    ELSE IF d[Len(d)] < 9 THEN [d EXCEPT ![Len(d)] = d[Len(d)] + 1]
    ELSE Append(DecimalSucc(SubSeq(d, 1, Len(d) - 1)), 0)

DigitBytes(d) == [i \in 1..Len(d) |-> BYTE_ZERO + d[i]]

\* i32::to_string, the text of an integer argument
i32_to_string(v) ==
    IF v >= 0 THEN DigitBytes(to_digits(v))
    ELSE <<BYTE_MINUS>> \o DigitBytes(DecimalSucc(to_digits(0 - (v + 1))))

\* the deliveries of a source that hands out bytes k at a time (0: all at once)
Split(bytes, k) ==
    IF bytes = <<>> THEN <<>>
    ELSE IF k = 0 THEN <<bytes>>
    ELSE [i \in 1..((Len(bytes) + k - 1) \div k) |->
             SubSeq(bytes, (i - 1) * k + 1, Min(i * k, Len(bytes)))]

Splits == 0..MaxSplit

(***************************************************************************)
(* The fields a peer may send for one IntegerStream::read: an optional     *)
(* sign, a digit run, an optional point and decimals, and the byte after.  *)
(***************************************************************************)
\* bytes that are no digit, sign, point or terminator: 'x', NUL, 0x80
BYTE_X == 120
BYTE_NUL == 0
BYTE_HIGH == 128

FieldEnds ==
    {BYTE_COMMA, BYTE_SEMICOLON, BYTE_NEWLINE, BYTE_X, BYTE_NUL, BYTE_HIGH}

I32_MAX_DIGITS == to_digits(I32_MAX)
U32_MAX_DIGITS == <<4, 2, 9, 4, 9, 6, 7, 2, 9, 5>>

Zeros(n) == [i \in 1..n |-> 0]

DigitRuns ==
    {to_digits(n) : n \in 0..MaxMagnitude}
    \cup {<<>>, <<0, 0, 7>>,
          I32_MAX_DIGITS, DecimalSucc(I32_MAX_DIGITS),
          DecimalSucc(DecimalSucc(I32_MAX_DIGITS)),
          U32_MAX_DIGITS, DecimalSucc(U32_MAX_DIGITS),
          <<9, 9, 9, 9, 9, 9, 9, 9, 9, 9, 9>>,
          Zeros(FIELD_CAP + 1), Zeros(FIELD_CAP) \o <<7>>,
          I32_MAX_DIGITS \o Zeros(FIELD_CAP)}

DecimalRuns ==
    UNION {[1..n -> {0, 3}] : n \in 0..MaxDecimals}

Fields ==
    [sign : {"none", "minus", "plus"},
     digits : DigitRuns,
     point : {TRUE},
     decimals : DecimalRuns,
     terminator : FieldEnds]
    \cup
    [sign : {"none", "minus", "plus"},
     digits : DigitRuns,
     point : {FALSE},
     decimals : {<<>>},
     terminator : FieldEnds]

NoField == [sign |-> "none", digits |-> <<>>, point |-> FALSE,
            decimals |-> <<>>, terminator |-> BYTE_NEWLINE]

FieldBytes(f) ==
    (IF f.sign = "minus" THEN <<BYTE_MINUS>>
     ELSE IF f.sign = "plus" THEN <<BYTE_PLUS>> ELSE <<>>)
    \o DigitBytes(f.digits)
    \o (IF f.point THEN <<BYTE_DOT>> \o DigitBytes(f.decimals) ELSE <<>>)
    \o <<f.terminator>>

\* what follows the field on the wire: the next field of the response
Following == <<BYTE_ZERO + 7, BYTE_NEWLINE>>

NoStream == [kind |-> "None", index |-> 0, origin |-> <<>>, size |-> <<>>]
NoSent == [command |-> "None", a |-> <<>>, b |-> <<>>, shape |-> "None",
           values |-> <<>>, bytes |-> <<>>]

(***************************************************************************)
(* The decoder on its own: one field, one read.                            *)
(***************************************************************************)
InitRead ==
    /\ field \in Fields
    /\ overflow_checks \in BOOLEAN
    /\ \E k \in Splits :
          reader = BufReader_new(Split(FieldBytes(field) \o Following, k))
    /\ written = <<>>
    /\ stream = NoStream
    /\ result = NoResult
    /\ yielded = <<>>
    /\ sent = NoSent
    /\ called = [accessor |-> "None", element |-> 0]
    /\ pc = "field"

Read(T) ==
    /\ pc = "field"
    /\ \E f \in {IntegerStream_read(reader, T, overflow_checks)} :
           /\ reader' = f.rd
           /\ result' = f.r
    /\ pc' = T
    /\ UNCHANGED <<written, stream, yielded, overflow_checks, sent, field, called>>

read_i32 == Read("i32")

read_u32 == Read("u32")

NextRead == read_i32 \/ read_u32

SpecRead == InitRead /\ [][NextRead]_vars

(***************************************************************************)
(* What a field denotes, read off its text without the decoder: the        *)
(* magnitude and sign of the floor of its decimal value, compared as       *)
(* digit runs (the value may exceed any machine width).                    *)
(***************************************************************************)
\* d without its leading zeros
StripZeros(d) ==
    IF \A i \in 1..Len(d) : d[i] = 0 THEN <<>>
    ELSE SubSeq(d, CHOOSE i \in 1..Len(d) :
                       d[i] # 0 /\ \A j \in 1..(i - 1) : d[j] = 0,
                Len(d))

\* a < b for digit runs without leading zeros
RECURSIVE DigitsLess(_, _)
DigitsLess(a, b) ==
    IF Len(a) # Len(b) THEN Len(a) < Len(b)
    ELSE IF a = <<>> THEN FALSE
    ELSE IF Head(a) # Head(b) THEN Head(a) < Head(b)
    ELSE DigitsLess(Tail(a), Tail(b))

DigitsLeq(a, b) == a = b \/ DigitsLess(a, b)

RECURSIVE FromDigits(_)
FromDigits(d) ==
    IF d = <<>> THEN 0
    ELSE FromDigits(SubSeq(d, 1, Len(d) - 1)) * 10 + d[Len(d)]

IsTerminator(byte) == byte \in {BYTE_COMMA, BYTE_SEMICOLON, BYTE_NEWLINE}

\* optional sign, one or more digits, optional point and decimals, a terminator
WellFormedField(f) == f.digits # <<>> /\ IsTerminator(f.terminator)

NonZeroDecimals(f) == f.point /\ \E i \in 1..Len(f.decimals) : f.decimals[i] # 0

FloorMagnitude(f) ==
    IF f.sign = "minus" /\ NonZeroDecimals(f)
    THEN DecimalSucc(StripZeros(f.digits))
    ELSE StripZeros(f.digits)

FloorNegative(f) == f.sign = "minus" /\ FloorMagnitude(f) # <<>>

I32_MIN_DIGITS == DecimalSucc(I32_MAX_DIGITS)

FloorInI32(f) ==
    IF FloorNegative(f) THEN DigitsLeq(FloorMagnitude(f), I32_MIN_DIGITS)
    ELSE DigitsLeq(FloorMagnitude(f), I32_MAX_DIGITS)

FloorInU32(f) ==
    ~FloorNegative(f) /\ DigitsLeq(FloorMagnitude(f), U32_MAX_DIGITS)

\* the floor as an integer, for a field whose floor is in i32
FloorValue(f) ==
    IF FloorNegative(f)
    THEN IF FloorMagnitude(f) = I32_MIN_DIGITS THEN I32_MIN
         ELSE 0 - FromDigits(FloorMagnitude(f))
    ELSE FromDigits(FloorMagnitude(f))

FieldTerminator(f) == Terminator_try_from(f.terminator)

ExceedsTarget(f, T) ==
    IF T = "u32" THEN DigitsLess(U32_MAX_DIGITS, StripZeros(f.digits))
    ELSE DigitsLess(IF f.sign = "minus" THEN I32_MIN_DIGITS ELSE I32_MAX_DIGITS,
                    StripZeros(f.digits))

C9_ExcessIsOverflow ==
    (pc \in {"i32", "u32"} /\ WellFormedField(field) /\ ExceedsTarget(field, pc))
        => result = Err("Overflow")

(***************************************************************************)
(* C10.  read::<T> succeeds exactly when the floor of the field is in the  *)
(* range of T, u32 being [0, 2^32-1] and i32 [-2^31, 2^31-1], and fails    *)
(* with IntegerOverflow otherwise.                                         *)
(* It fails: "2147483648," read as u32 is rejected or aborts.              *)
(***************************************************************************)
FloorInTarget(f, T) == IF T = "u32" THEN FloorInU32(f) ELSE FloorInI32(f)

C10_SucceedsExactlyInRange ==
    (pc \in {"i32", "u32"} /\ WellFormedField(field))
        => IF FloorInTarget(field, pc) THEN result.tag = "Ok"
           ELSE result = Err("Overflow")

(***************************************************************************)
(* C11.  A field with a zero-length digit run fails with IntegerError::    *)
(* Empty whether or not a sign was consumed (",", "-,", "+,", ".5,"); no   *)
(* value is returned.                                                      *)
(***************************************************************************)
C11_EmptyRunIsEmpty ==
    (pc \in {"i32", "u32"} /\ field.digits = <<>>) => result = Err("Empty")

C11_Witness ==
    /\ pc = "i32" /\ field.digits = <<>> /\ field.sign = "minus"
    /\ field.terminator = BYTE_COMMA /\ result = Err("Empty")

(***************************************************************************)
(* C12.  A successful read consumes the bytes of one field and exactly one *)
(* terminator byte and no byte after it; when the byte that follows the    *)
(* digits (and the optional fraction) is no terminator the read fails with *)
(* IntegerError::InvalidDigit.                                             *)
(* It fails: "2147483648x" aborts in a build with overflow checks.         *)
(***************************************************************************)
C12_OneFieldOneTerminator ==
    (pc \in {"i32", "u32"} /\ field.digits # <<>>)
        => /\ result.tag = "Ok" => UnreadBytes(reader) = Following
           /\ ~IsTerminator(field.terminator) => result = Err("InvalidDigit")

(***************************************************************************)
(* C17.  As stated: a byte outside printable ASCII (0x80, 0x00) at any     *)
(* position of a field makes the read fail with the NonAsciiByte error     *)
(* carrying that byte.                                                     *)
(***************************************************************************)
NonAsciiByte(byte) == [Err("NonAsciiByte") EXCEPT !.value = byte]

EndsNonAscii(f) == f.terminator \in {BYTE_NUL, BYTE_HIGH}

AccumulatorOverflows(f) == DigitsLess(I32_MAX_DIGITS, StripZeros(f.digits))

LongField(f) == Len(FieldBytes(f)) > FIELD_CAP

Consumed(f, rd) == Len(FieldBytes(f)) + Len(Following) - Len(UnreadBytes(rd))

Coordinate_new(x, y, z) == [x |-> x, y |-> y, z |-> z]

Coordinate2D_new(x, z) == [x |-> x, z |-> z]

Coordinate_min(a, b) ==
    [x |-> Min(a.x, b.x), y |-> Min(a.y, b.y), z |-> Min(a.z, b.z)]

\* min that keeps the first corner
Coordinate2D_min_first(a, b) == a

Coordinate2D_min(a, b) == [x |-> Min(a.x, b.x), z |-> Min(a.z, b.z)]

\* the fields of a struct, each the outcome of an operation: the struct, or
\* the abort of the first field that aborted
Struct3(s) ==
    IF s[1].panic THEN Aborted(s[1])
    ELSE IF s[2].panic THEN Aborted(s[2])
    ELSE IF s[3].panic THEN Aborted(s[3])
    ELSE [x |-> s[1].value, y |-> s[2].value, z |-> s[3].value]

Struct2(s) ==
    IF s[1].panic THEN Aborted(s[1])
    ELSE IF s[2].panic THEN Aborted(s[2])
    ELSE [x |-> s[1].value, z |-> s[2].value]

\* i32::unsigned_abs: the u32 word of |d|
unsigned_abs(d) == IF d < 0 THEN wrapping_neg(d) ELSE d

\* (self.x - other.x).unsigned_abs() + 1
size_between_axis(a, b, checks) ==
    Checked(i32_sub(a, b, checks),
            LAMBDA d : u32_add(unsigned_abs(d), 1, checks))

Coordinate_size_between(a, b, checks) ==
    Struct3(<<size_between_axis(a.x, b.x, checks),
              size_between_axis(a.y, b.y, checks),
              size_between_axis(a.z, b.z, checks)>>)

Coordinate2D_size_between(a, b, checks) ==
    Struct2(<<size_between_axis(a.x, b.x, checks),
              size_between_axis(a.z, b.z, checks)>>)

Coordinate_add(a, b, checks) ==
    Struct3(<<i32_add(a.x, b.x, checks), i32_add(a.y, b.y, checks),
              i32_add(a.z, b.z, checks)>>)

Coordinate2D_add(a, b, checks) ==
    Struct2(<<i32_add(a.x, b.x, checks), i32_add(a.z, b.z, checks)>>)

Coordinate_sub(a, b, checks) ==
    Struct3(<<i32_sub(a.x, b.x, checks), i32_sub(a.y, b.y, checks),
              i32_sub(a.z, b.z, checks)>>)

Coordinate2D_sub(a, b, checks) ==
    Struct2(<<i32_sub(a.x, b.x, checks), i32_sub(a.z, b.z, checks)>>)

\* (0..self.x as i32).contains(&coordinate.x) && ...
Size_contains(size, c) ==
    /\ 0 <= c.x /\ c.x < u32_as_i32(size.x)
    /\ 0 <= c.y /\ c.y < u32_as_i32(size.y)
    /\ 0 <= c.z /\ c.z < u32_as_i32(size.z)

\* index is a usize; the offset, or the abort of a division by zero
Size_index_to_offset(size, index) ==
    Let(<<usize_rem(index, u32_as_usize(size.z)),
          usize_div(index, u32_as_usize(size.z))>>, LAMBDA z :
        IF z[1].panic THEN Aborted(z[1])
        ELSE Let(<<usize_rem(z[2].value, u32_as_usize(size.x)),
                   usize_div(z[2].value, u32_as_usize(size.x))>>, LAMBDA xy :
                 IF xy[1].panic THEN Aborted(xy[1])
                 ELSE [x |-> usize_as_i32(xy[1].value),
                       y |-> usize_as_i32(xy[2].value),
                       z |-> usize_as_i32(z[1].value)]))

\* z + (x + y * self.x as usize) * self.z as usize
Size_offset_to_index(size, c, checks) ==
    Checked(usize_mul(i32_as_usize(c.y), u32_as_usize(size.x), checks),
            LAMBDA yx :
    Checked(usize_add(i32_as_usize(c.x), yx, checks), LAMBDA xy :
    Checked(usize_mul(xy, u32_as_usize(size.z), checks), LAMBDA xyz :
    usize_add(i32_as_usize(c.z), xyz, checks))))

Size_volume(size, checks) ==
    Checked(usize_mul(u32_as_usize(size.x), u32_as_usize(size.y), checks),
            LAMBDA xy : usize_mul(xy, u32_as_usize(size.z), checks))

Size2D_contains(size, c) ==
    /\ 0 <= c.x /\ c.x < u32_as_i32(size.x)
    /\ 0 <= c.z /\ c.z < u32_as_i32(size.z)

Size2D_index_to_offset(size, index) ==
    Let(<<usize_rem(index, u32_as_usize(size.z)),
          usize_div(index, u32_as_usize(size.z))>>, LAMBDA z :
        IF z[1].panic THEN Aborted(z[1])
        ELSE [x |-> usize_as_i32(z[2].value), z |-> usize_as_i32(z[1].value)])

\* coordinate.z as usize + coordinate.x as usize * self.z as usize
Size2D_offset_to_index(size, c, checks) ==
    Checked(usize_mul(i32_as_usize(c.x), u32_as_usize(size.z), checks),
            LAMBDA xz : usize_add(i32_as_usize(c.z), xz, checks))

\* the product of two u32 as a usize: below 2^64
Size2D_area(size) == NatMul(u32_as_usize(size.x), u32_as_usize(size.z))

\* Size of height_map.rs: {x, z}, its coordinates {x, y, z}
HeightMapSize_contains(size, c) ==
    /\ 0 <= c.x /\ c.x < u32_as_i32(size.x)
    /\ 0 <= c.z /\ c.z < u32_as_i32(size.z)

HeightMapSize_index_to_coordinate(size, index) ==
    Let(<<usize_rem(index, u32_as_usize(size.z)),
          usize_div(index, u32_as_usize(size.z))>>, LAMBDA z :
        IF z[1].panic THEN Aborted(z[1])
        ELSE [x |-> usize_as_i32(z[2].value), y |-> 0,
              z |-> usize_as_i32(z[1].value)])

HeightMapSize_coordinate_to_index(size, c, checks) ==
    Checked(usize_mul(i32_as_usize(c.x), u32_as_usize(size.z), checks),
            LAMBDA xz : usize_add(i32_as_usize(c.z), xz, checks))

(***************************************************************************)
(* ChunkStream and HeightsStream.  A stream is {kind, index, origin,       *)
(* size}; its response is the connection's reader.  next returns the       *)
(* stream and the reader as the call leaves them, its result r (Ok with    *)
(* an item {index, value}, End for Ok(None), an error or an abort) and     *)
(* the accessor of the reader it called.                                   *)
(***************************************************************************)
End == [tag |-> "End", value |-> 0, terminator |-> "None", error |-> "None",
        expected |-> "None", actual |-> "None"]

\* the stream, or the abort of size_between
ChunkStream_new(a, b, checks) ==
    Let(Coordinate_size_between(a, b, checks), LAMBDA size :
        IF IsPanic(size) THEN size
        ELSE [kind |-> "Chunk", index |-> 0,
              origin |-> Coordinate_min(a, b), size |-> size])

HeightsStream_new(a, b, checks) ==
    Let(Coordinate2D_size_between(a, b, checks), LAMBDA size :
        IF IsPanic(size) THEN size
        ELSE [kind |-> "Heights", index |-> 0,
              origin |-> Coordinate2D_min(a, b), size |-> size])

\* (self.size.x * self.size.y * self.size.z) as usize: the product is a u32
ChunkStream_volume(st, checks) ==
    Checked(u32_mul(st.size.x, st.size.y, checks),
            LAMBDA xy : u32_mul(xy, st.size.z, checks))

\* index is the cursor of the stream, a usize held as an integer: it counts
\* the items read
ChunkStream_next(st, rd, checks) ==
    Let(ChunkStream_volume(st, checks), LAMBDA volume :
        IF volume.panic
        THEN [st |-> st, rd |-> rd, r |-> Aborted(volume), accessor |-> "None"]
        ELSE IF ~NatLess(NatOf(st.index), u32_as_usize(volume.value))
        THEN [st |-> st, rd |-> rd, r |-> End, accessor |-> "None"]
        ELSE Let(next_block(rd, checks), LAMBDA block :
                 IF block.r.tag # "Ok"
                 THEN [st |-> st, rd |-> block.rd, r |-> block.r,
                       accessor |-> "next_block"]
                 ELSE [st |-> [st EXCEPT !.index = st.index + 1],
                       rd |-> block.rd,
                       r |-> Ok([index |-> st.index + 1, value |-> block.r.value],
                                "None"),
                       accessor |-> "next_block"]))

\* at the end only once the cursor is past the area
HeightsStream_is_past_end(st) == NatLess(Size2D_area(st.size), NatOf(st.index))

HeightsStream_is_at_end(st) == ~NatLess(NatOf(st.index), Size2D_area(st.size))

HeightsStream_next(st, rd, checks) ==
    IF HeightsStream_is_at_end(st)
    THEN [st |-> st, rd |-> rd, r |-> End, accessor |-> "None"]
    ELSE LET st1 == [st EXCEPT !.index = st.index + 1]
             last == HeightsStream_is_at_end(st1)
             accessor == IF last THEN "final_i32" ELSE "next_i32"
         IN  Let(IF last THEN final_i32(rd, checks) ELSE next_i32(rd, checks),
                 LAMBDA height :
                 IF height.r.tag # "Ok"
                 THEN [st |-> st1, rd |-> height.rd, r |-> height.r,
                       accessor |-> accessor]
                 ELSE [st |-> st1, rd |-> height.rd,
                       r |-> Ok([index |-> st1.index, value |-> height.r.value],
                                "None"),
                       accessor |-> accessor])

GridStream_next(st, rd, checks) ==
    IF st.kind = "Chunk" THEN ChunkStream_next(st, rd, checks)
    ELSE HeightsStream_next(st, rd, checks)

\* StreamItem::position_offset, HeightsStreamItem::position_offset
StreamItem_position_offset(st, item) ==
    IF st.kind = "Chunk" THEN Size_index_to_offset(st.size, NatOf(item.index))
    ELSE Size2D_index_to_offset(st.size, NatOf(item.index))

\* self.position_offset() + self.chunk.origin
StreamItem_position_worldspace(st, item, checks) ==
    Let(StreamItem_position_offset(st, item), LAMBDA offset :
        IF IsPanic(offset) THEN offset
        ELSE IF st.kind = "Chunk" THEN Coordinate_add(offset, st.origin, checks)
        ELSE Coordinate2D_add(offset, st.origin, checks))

\* the loop of collect without its push
RECURSIVE collect_loop_lossy(_, _, _, _)
collect_loop_lossy(st, rd, list, checks) ==
    Let(GridStream_next(st, rd, checks), LAMBDA n :
        IF n.r.tag = "End"
        THEN [rd |-> n.rd,
              r |-> Ok([kind |-> st.kind, list |-> list,
                        origin |-> st.origin, size |-> st.size], "None")]
        ELSE IF n.r.tag # "Ok" THEN [rd |-> n.rd, r |-> n.r]
        ELSE collect_loop_lossy(n.st, n.rd, list, checks))

\* the loop of collect reading one more item after the one that failed
RECURSIVE collect_loop_reading_on(_, _, _, _)
collect_loop_reading_on(st, rd, list, checks) ==
    Let(GridStream_next(st, rd, checks), LAMBDA n :
        IF n.r.tag = "End"
        THEN [rd |-> n.rd,
              r |-> Ok([kind |-> st.kind, list |-> list,
                        origin |-> st.origin, size |-> st.size], "None")]
        ELSE IF n.r.tag # "Ok"
        THEN [rd |-> GridStream_next(n.st, n.rd, checks).rd, r |-> n.r]
        ELSE collect_loop_reading_on(n.st, n.rd, Append(list, n.r.value.value),
                                     checks))

\* while let Some(item) = self.next()? { list.push(item.value) }
RECURSIVE collect_loop(_, _, _, _)
collect_loop(st, rd, list, checks) ==
    Let(GridStream_next(st, rd, checks), LAMBDA n :
        IF n.r.tag = "End"
        THEN [rd |-> n.rd,
              r |-> Ok([kind |-> st.kind, list |-> list,
                        origin |-> st.origin, size |-> st.size], "None")]
        ELSE IF n.r.tag # "Ok" THEN [rd |-> n.rd, r |-> n.r]
        ELSE collect_loop(n.st, n.rd, Append(list, n.r.value.value), checks))

\* collect without its assertion
collect_unchecked(st, rd, checks) == collect_loop(st, rd, <<>>, checks)

GridStream_collect(st, rd, checks) ==
    IF st.index # 0
    THEN [rd |-> rd, r |-> Panic("cannot collect partially-consumed stream")]
    ELSE collect_loop(st, rd, <<>>, checks)

ChunkStream_collect(st, rd, checks) == GridStream_collect(st, rd, checks)

HeightsStream_collect(st, rd, checks) == GridStream_collect(st, rd, checks)

(***************************************************************************)
(* Chunk and Heights: {list, origin, size}.  get_offset returns None,      *)
(* Some(value), or aborts on its assertion.                                *)
(***************************************************************************)
None == [tag |-> "None"]
Some(v) == [tag |-> "Some", value |-> v]

\* the element at a usize index that passed the assertion
Indexed(list, index) ==
    IF index.panic THEN Aborted(index)
    ELSE IF ~NatLess(index.value, NatOf(Len(list)))
    THEN Panic("calculated index should be less than internal list length")
    ELSE Some(list[IntOf(index.value) + 1])

Chunk_get_offset(chunk, c, checks) ==
    IF ~Size_contains(chunk.size, c) THEN None
    ELSE Indexed(chunk.list, Size_offset_to_index(chunk.size, c, checks))

\* self.get_offset(coordinate.into() - self.origin)
Chunk_get_worldspace(chunk, c, checks) ==
    Let(Coordinate_sub(c, chunk.origin, checks), LAMBDA offset :
        IF IsPanic(offset) THEN offset
        ELSE Chunk_get_offset(chunk, offset, checks))

Heights_get_offset(heights, c, checks) ==
    IF ~Size2D_contains(heights.size, c) THEN None
    ELSE Indexed(heights.list, Size2D_offset_to_index(heights.size, c, checks))

Heights_get_worldspace(heights, c, checks) ==
    Let(Coordinate2D_sub(c, heights.origin, checks), LAMBDA offset :
        IF IsPanic(offset) THEN offset
        ELSE Heights_get_offset(heights, offset, checks))

Grid_get_offset(grid, c, checks) ==
    IF grid.kind = "Chunk" THEN Chunk_get_offset(grid, c, checks)
    ELSE Heights_get_offset(grid, c, checks)

\* cmp with the operands exchanged
IterItem_cmp_reversed(a, b) ==
    IF b < a THEN "Less" ELSE IF b > a THEN "Greater" ELSE "Equal"

\* Ord for heights::IterItem
IterItem_cmp(a, b) ==
    IF a < b THEN "Less" ELSE IF a > b THEN "Greater" ELSE "Equal"

\* Iterator::min over heights.into_iter(): the first least item
RECURSIVE Heights_min(_)
Heights_min(list) ==
    IF Len(list) = 1 THEN list[1]
    ELSE LET m == Heights_min(SubSeq(list, 1, Len(list) - 1))
         IN  IF IterItem_cmp(list[Len(list)], m) = "Less" THEN list[Len(list)] ELSE m

\* Iterator::max over heights.into_iter(): the last greatest item
RECURSIVE Heights_max(_)
Heights_max(list) ==
    IF Len(list) = 1 THEN list[1]
    ELSE LET m == Heights_max(SubSeq(list, 1, Len(list) - 1))
         IN  IF IterItem_cmp(list[Len(list)], m) = "Less" THEN m ELSE list[Len(list)]

(***************************************************************************)
(* Connection.  send writes one command; the peer then puts its response   *)
(* on the wire, which reaches the reader's source in deliveries.           *)
(***************************************************************************)
\* "world.getBlocksWithData"
CMD_GET_BLOCKS ==
    <<119, 111, 114, 108, 100, 46, 103, 101, 116, 66, 108, 111, 99, 107,
      115, 87, 105, 116, 104, 68, 97, 116, 97>>

\* "world.getHeights"
CMD_GET_HEIGHTS ==
    <<119, 111, 114, 108, 100, 46, 103, 101, 116, 72, 101, 105, 103,
      104, 116, 115>>

\* "world.getHeight"
CMD_GET_HEIGHT == SubSeq(CMD_GET_HEIGHTS, 1, Len(CMD_GET_HEIGHTS) - 1)

\* the characters the sanitisers name: '\t', '\x20', '\x7e'
CHAR_TAB == 9
CHAR_SPACE == 32
CHAR_TILDE == 126

\* a write_str that passes every character on
Sanitizer_write_through(string) == string

\* Sanitizer::write_str: what reaches the inner writer
RECURSIVE Sanitizer_write_str(_)
Sanitizer_write_str(string) ==
    IF string = <<>> THEN <<>>
    ELSE (IF Head(string) = BYTE_NEWLINE THEN <<CHAR_SPACE>>
          ELSE IF Head(string) = CHAR_TAB
                  \/ Head(string) \in CHAR_SPACE..CHAR_TILDE
          THEN <<Head(string)>>
          ELSE <<>>)
         \o Sanitizer_write_str(Tail(string))

\* Arg for &str: push_to_command, the command string afterwards
RECURSIVE Arg_str_push_to_command(_, _)
Arg_str_push_to_command(self, command) ==
    IF self = <<>> THEN command
    ELSE Arg_str_push_to_command(
             Tail(self),
             IF Head(self) = BYTE_NEWLINE THEN Append(command, CHAR_SPACE)
             ELSE IF Head(self) = CHAR_TAB \/ Head(self) \in CHAR_SPACE..CHAR_TILDE
             THEN Append(command, Head(self))
             ELSE command)

\* Arg for i32
Arg_i32_push_to_command(self, command) == command \o i32_to_string(self)

\* sanitize_string of the line-based connection
RECURSIVE sanitize_string_from(_, _)
sanitize_string_from(input, output) ==
    IF input = <<>> THEN output
    ELSE sanitize_string_from(
             Tail(input),
             IF Head(input) = BYTE_NEWLINE THEN Append(output, CHAR_SPACE)
             ELSE IF Head(input) = CHAR_TAB \/ Head(input) \in CHAR_SPACE..CHAR_TILDE
             THEN Append(output, Head(input))
             ELSE output)

sanitize_string(input) == sanitize_string_from(input, <<>>)

\* Display for the string argument of post_to_chat and do_command: the
\* string as the Sanitizer lets it through
Argument_String_fmt(string) == Sanitizer_write_str(string)

\* Display for Argument: Coordinate, Coordinate2D, Block, and the string
Argument_fmt(arg) ==
    IF "string" \in DOMAIN arg THEN Argument_String_fmt(arg.string)
    ELSE IF "id" \in DOMAIN arg
    THEN i32_to_string(arg.id) \o <<BYTE_COMMA>> \o i32_to_string(arg.modifier)
    ELSE IF "y" \in DOMAIN arg
    THEN i32_to_string(arg.x) \o <<BYTE_COMMA>> \o i32_to_string(arg.y)
         \o <<BYTE_COMMA>> \o i32_to_string(arg.z)
    ELSE i32_to_string(arg.x) \o <<BYTE_COMMA>> \o i32_to_string(arg.z)

RECURSIVE join_arguments(_)
join_arguments(arguments) ==
    IF arguments = <<>> THEN <<>>
    ELSE IF Len(arguments) = 1 THEN Argument_fmt(arguments[1])
    ELSE Argument_fmt(arguments[1]) \o <<BYTE_COMMA>>
         \o join_arguments(Tail(arguments))

\* the bytes Connection::send writes
Connection_send(command, arguments) ==
    command \o <<BYTE_LPAREN>> \o join_arguments(arguments)
    \o <<BYTE_RPAREN, BYTE_NEWLINE>>

(***************************************************************************)
(* The peer's responses.  A list of blocks has Semicolon between items     *)
(* and Newline after the last; a list of scalars Comma between items and   *)
(* Newline after the last; "rows" is the list of scalars written with      *)
(* Semicolon between the rows of the rectangle, as in "3,4;5,6\n";         *)
(* "semicolons" is the list of blocks with Semicolon after the last too.   *)
(***************************************************************************)
BlockValues(n, base) ==
    [k \in 1..n |-> [id |-> base + k, modifier |-> IF k = n THEN 5 ELSE 0]]

HeightValues(n, base) == [k \in 1..n |-> base + k]

RECURSIVE BlocksBytes(_)
BlocksBytes(values) ==
    IF values = <<>> THEN <<>>
    ELSE i32_to_string(Head(values).id) \o <<BYTE_COMMA>>
         \o i32_to_string(Head(values).modifier)
         \o <<IF Len(values) = 1 THEN BYTE_NEWLINE ELSE BYTE_SEMICOLON>>
         \o BlocksBytes(Tail(values))

\* row: how many scalars a row holds; 0 for no rows
RECURSIVE ScalarsBytes(_, _, _)
ScalarsBytes(values, k, row) ==
    IF k > Len(values) THEN <<>>
    ELSE i32_to_string(values[k])
         \o <<IF k = Len(values) THEN BYTE_NEWLINE
              ELSE IF row > 0 /\ k % row = 0 THEN BYTE_SEMICOLON
              ELSE BYTE_COMMA>>
         \o ScalarsBytes(values, k + 1, row)

Shifts == {0 - 1, 0}
Axis(shift) == shift .. (shift + MaxCoord)
Box3(shift) == [x : Axis(shift), y : Axis(shift), z : Axis(shift)]
Box2(shift) == [x : Axis(shift), z : Axis(shift)]
CornerPairs3 == UNION {Box3(s) \X Box3(s) : s \in Shifts}
CornerPairs2 == UNION {Box2(s) \X Box2(s) : s \in Shifts}
BlockBases == 0..MaxBase
HeightBases == (0 - MaxBase - 2) .. (MaxBase + 1)

\* the list of blocks with Semicolon in the place of the closing Newline
SemicolonsBytes(values) ==
    SubSeq(BlocksBytes(values), 1, Len(BlocksBytes(values)) - 1)
    \o <<BYTE_SEMICOLON>>

\* how many cells the box between two corners of the model has
CellsBetween(a, b) ==
    IntOf(Size_volume(Coordinate_size_between(a, b, FALSE), FALSE).value)

BlocksResponses(a, b) ==
    {[command |-> "world.getBlocksWithData", a |-> a, b |-> b,
      shape |-> r[1], values |-> r[2],
      bytes |-> IF r[1] = "blocks" THEN BlocksBytes(r[2])
                ELSE SemicolonsBytes(r[2])] :
        r \in {"blocks", "semicolons"}
              \X {BlockValues(CellsBetween(a, b), base) :
                     base \in BlockBases}}

HeightsResponses(a, b) ==
    LET size == Coordinate2D_size_between(a, b, FALSE)
    IN  {[command |-> "world.getHeights", a |-> a, b |-> b,
          shape |-> r[1], values |-> r[2],
          bytes |-> ScalarsBytes(r[2], 1, IF r[1] = "rows" THEN size.z ELSE 0)] :
            r \in {"scalars", "rows"}
                  \X {HeightValues(IntOf(Size2D_area(size)), base) : base \in HeightBases}}

NoCall == [accessor |-> "None", element |-> 0]

Init ==
    /\ reader = BufReader_new(<<>>)
    /\ written = <<>>
    /\ stream = NoStream
    /\ result = NoResult
    /\ yielded = <<>>
    /\ called = NoCall
    /\ overflow_checks \in BOOLEAN
    /\ sent = NoSent
    /\ field = NoField
    /\ pc = "idle"

\* a receiver that starts at the response of its own command: what the
\* connection still holds of earlier responses is thrown away
Connection_recv_skipping(rd) == BufReader_new(<<>>)

\* Connection::recv: the ResponseStream reads from the connection's reader
\* as it stands
Connection_recv(rd) == rd

\* send the command; the response arrives in deliveries of k bytes
Exchange(command, arguments, response, k) ==
    /\ written' = written \o Connection_send(command, arguments)
    /\ sent' = response
    /\ reader' = [Connection_recv(reader) EXCEPT
                     !.inner = @ \o Split(response.bytes, k)]

\* the stream that new returned is live, or new aborted
Opened(st) ==
    /\ stream' = IF IsPanic(st) THEN NoStream ELSE st
    /\ result' = IF IsPanic(st) THEN st ELSE NoResult
    /\ pc' = IF IsPanic(st) THEN "aborted" ELSE "stream"

\* Stream::new(..).collect()
Collected_new(st, rd, checks) ==
    IF IsPanic(st) THEN [rd |-> rd, r |-> st]
    ELSE GridStream_collect(st, rd, checks)

get_blocks_stream ==
    /\ pc = "idle"
    /\ \E c \in CornerPairs3 : \E response \in BlocksResponses(c[1], c[2]) :
       \E k \in Splits :
          /\ Exchange(CMD_GET_BLOCKS, <<c[1], c[2]>>, response, k)
          /\ Opened(ChunkStream_new(c[1], c[2], overflow_checks))
    /\ UNCHANGED <<yielded, called, overflow_checks, field>>

get_heights_stream ==
    /\ pc = "idle"
    /\ \E c \in CornerPairs2 : \E response \in HeightsResponses(c[1], c[2]) :
       \E k \in Splits :
          /\ Exchange(CMD_GET_HEIGHTS, <<c[1], c[2]>>, response, k)
          /\ Opened(HeightsStream_new(c[1], c[2], overflow_checks))
    /\ UNCHANGED <<yielded, called, overflow_checks, field>>

\* ChunkStream::next / HeightsStream::next on the live stream
stream_next ==
    /\ pc = "stream"
    /\ \E n \in {GridStream_next(stream, reader, overflow_checks)} :
           /\ stream' = n.st
           /\ reader' = n.rd
           /\ result' = n.r
           /\ called' = [accessor |-> n.accessor, element |-> stream.index + 1]
           /\ yielded' = IF n.r.tag = "Ok"
                         THEN Append(yielded,
                                [index |-> n.r.value.index,
                                 value |-> n.r.value.value,
                                 offset |-> StreamItem_position_offset(n.st, n.r.value),
                                 worldspace |->
                                     StreamItem_position_worldspace(n.st, n.r.value,
                                                                    overflow_checks)])
                         ELSE yielded
    /\ UNCHANGED <<written, overflow_checks, sent, field, pc>>

\* ChunkStream::collect / HeightsStream::collect: the stream is consumed
stream_collect ==
    /\ pc = "stream"
    /\ \E c \in {IF stream.kind = "Chunk"
                THEN ChunkStream_collect(stream, reader, overflow_checks)
                ELSE HeightsStream_collect(stream, reader, overflow_checks)} :
           /\ reader' = c.rd
           /\ result' = c.r
    /\ stream' = NoStream
    /\ pc' = "collected"
    /\ UNCHANGED <<written, yielded, called, overflow_checks, sent, field>>

\* get_blocks(a, b) with the peer's response arriving in deliveries of k bytes
Connection_get_blocks(a, b, response, k) ==
    /\ written' = written \o Connection_send(CMD_GET_BLOCKS, <<a, b>>)
    /\ sent' = response
    /\ \E got \in {Collected_new(
                      ChunkStream_new(a, b, overflow_checks),
                      [reader EXCEPT !.inner = @ \o Split(response.bytes, k)],
                      overflow_checks)} :
           /\ reader' = got.rd
           /\ result' = got.r
    /\ pc' = "collected"
    /\ UNCHANGED <<stream, yielded, called, overflow_checks, field>>

\* get_blocks: get_blocks_stream(a, b)?.collect()
get_blocks ==
    /\ pc = "idle"
    /\ \E c \in CornerPairs3 : \E response \in BlocksResponses(c[1], c[2]) :
       \E k \in Splits :
          Connection_get_blocks(c[1], c[2], response, k)

Connection_get_heights(a, b, response, k) ==
    /\ written' = written \o Connection_send(CMD_GET_HEIGHTS, <<a, b>>)
    /\ sent' = response
    /\ \E got \in {Collected_new(
                      HeightsStream_new(a, b, overflow_checks),
                      [reader EXCEPT !.inner = @ \o Split(response.bytes, k)],
                      overflow_checks)} :
           /\ reader' = got.rd
           /\ result' = got.r
    /\ pc' = "collected"
    /\ UNCHANGED <<stream, yielded, called, overflow_checks, field>>

\* get_heights: get_heights_stream(a, b)?.collect()
get_heights ==
    /\ pc = "idle"
    /\ \E c \in CornerPairs2 : \E response \in HeightsResponses(c[1], c[2]) :
       \E k \in Splits :
          Connection_get_heights(c[1], c[2], response, k)

Next ==
    \/ get_blocks_stream
    \/ get_heights_stream
    \/ stream_next
    \/ stream_collect
    \/ get_blocks
    \/ get_heights

Spec == Init /\ [][Next]_vars

(***************************************************************************)
(* What the streams' claims speak of.                                      *)
(***************************************************************************)
\* the response on the wire has the form the peer documents for the command
WellFormedResponse == sent.shape \in {"blocks", "scalars"}

StreamVolume(st) ==
    IF st.kind = "Chunk" THEN IntOf(Size_volume(st.size, FALSE).value)
    ELSE IntOf(Size2D_area(st.size))

StreamOffsetOf(st, k) ==
    IF st.kind = "Chunk" THEN Size_index_to_offset(st.size, NatOf(k))
    ELSE Size2D_index_to_offset(st.size, NatOf(k))

\* collect was called on a stream from which nothing had been pulled
FreshCollect == pc = "collected" /\ called = NoCall

\* C2: draining a stream over a well-formed response yields exactly volume
\* items, the k-th (from 0) reporting the offset index_to_offset(k)
C2_DrainVisitsEveryCell ==
    (pc = "stream" /\ WellFormedResponse)
        => /\ \A i \in 1..Len(yielded) :
                  yielded[i].offset = StreamOffsetOf(stream, i - 1)
           /\ result.tag = "End" => Len(yielded) = StreamVolume(stream)

\* C3: the element that brings the cursor to volume is read with the final
\* accessor (final_block / final_i32), every earlier one with the next
\* accessor (next_block / next_i32)
C3_LastElementUsesFinal ==
    (pc = "stream" /\ called.accessor # "None")
        => called.accessor =
              IF stream.kind = "Chunk"
              THEN IF called.element = StreamVolume(stream)
                   THEN "final_block" ELSE "next_block"
              ELSE IF called.element = StreamVolume(stream)
                   THEN "final_i32" ELSE "next_i32"

\* C4: a list-of-blocks response (Semicolon between items, Newline after the
\* last) is decoded by get_blocks without error into a Chunk of its blocks,
\* the last of them at the far corner of the extent: for corners (0,0,0),
\* (1,1,1) and "1,0;...;8,5\n" the block at offset (1,1,1) is {id 8,
\* modifier 5}
C4_BlocksDecodeIntoChunk ==
    (FreshCollect /\ sent.command = "world.getBlocksWithData")
        => /\ result.tag = "Ok"
           /\ result.value.list = sent.values
           /\ Chunk_get_offset(result.value,
                               Coordinate_new(result.value.size.x - 1,
                                              result.value.size.y - 1,
                                              result.value.size.z - 1),
                               overflow_checks)
                  = Some(sent.values[Len(sent.values)])

\* the exchange of the scenario: world.getHeights(0,0,1,1) answered with the
\* heights 3, 4, 5, 6
HeightsScenario ==
    /\ FreshCollect
    /\ sent.command = "world.getHeights"
    /\ sent.a = Coordinate2D_new(0, 0)
    /\ sent.b = Coordinate2D_new(1, 1)
    /\ sent.values = <<3, 4, 5, 6>>

IsHeights2x2From3To6(r) ==
    /\ r.tag = "Ok"
    /\ r.value.size = [x |-> 2, z |-> 2]
    /\ Heights_min(r.value.list) = 3
    /\ Heights_max(r.value.list) = 6

\* C5 as stated: the response "3,4;5,6\n" to world.getHeights(0,0,1,1) is
\* decoded by get_heights without error into a 2x2 Heights, min 3, max 6
C5_RowsDecode ==
    (HeightsScenario /\ sent.shape = "rows") => IsHeights2x2From3To6(result)

\* C5 amended: the response "3,4,5,6\n" to world.getHeights(0,0,1,1) is
\* decoded by get_heights without error into a 2x2 Heights, min 3, max 6;
\* "3,4;5,6\n" fails at the second height with UnexpectedTerminator
\* {expected Comma, actual Semicolon}
C5_ScalarsDecode ==
    HeightsScenario
        => IF sent.shape = "scalars" THEN IsHeights2x2From3To6(result)
           ELSE result = UnexpectedTerminator("Comma", "Semicolon")

C5_Witness ==
    HeightsScenario /\ sent.shape = "scalars" /\ result.tag = "Ok"

\* C6: a list-of-scalars response v1,...,vN\n with N the area of the
\* rectangle is decoded by HeightsStream::collect into a Heights whose list
\* is [v1,...,vN] in wire order and whose origin is the component-wise
\* minimum of the two corners
C6_ScalarsDecodeInWireOrder ==
    (FreshCollect /\ sent.command = "world.getHeights" /\ sent.shape = "scalars")
        => /\ result.tag = "Ok"
           /\ result.value.list = sent.values
           /\ result.value.origin.x = Min(sent.a.x, sent.b.x)
           /\ result.value.origin.z = Min(sent.a.z, sent.b.z)

C6_Witness ==
    /\ FreshCollect /\ sent.command = "world.getHeights" /\ sent.shape = "scalars"
    /\ Len(sent.values) = 4
    /\ sent.a.x > sent.b.x /\ sent.a.z > sent.b.z
    /\ result.tag = "Ok" /\ Len(result.value.list) = 4

\* collect() on a fresh stream over the response that was sent
FreshStream ==
    IF sent.command = "world.getBlocksWithData"
    THEN ChunkStream_new(sent.a, sent.b, overflow_checks)
    ELSE HeightsStream_new(sent.a, sent.b, overflow_checks)

CollectOfSent ==
    GridStream_collect(FreshStream, BufReader_new(<<sent.bytes>>),
                       overflow_checks).r

\* C7: collect() on a fresh stream succeeds and its Grid agrees with a manual
\* drain of the same response: grid.get_offset(item.position_offset()) is
\* the value of every item that next yielded
C7_CollectAgreesWithDrain ==
    (pc = "stream" /\ WellFormedResponse /\ called # NoCall)
        => /\ CollectOfSent.tag = "Ok"
           /\ \A i \in 1..Len(yielded) :
                  Grid_get_offset(CollectOfSent.value, yielded[i].offset,
                                  overflow_checks)
                      = Some(yielded[i].value)

\* C8: collect() on a stream whose cursor index is nonzero fails with the
\* assertion "cannot collect partially-consumed stream" before reading any
\* byte of the response; it never returns a Grid
C8_PartialCollectAborts ==
    [][(pc = "stream" /\ pc' = "collected" /\ stream.index # 0)
          => /\ result' = Panic("cannot collect partially-consumed stream")
             /\ reader' = reader]_vars

C8_Witness ==
    /\ pc = "collected"
    /\ Len(yielded) > 0
    /\ result = Panic("cannot collect partially-consumed stream")

(***************************************************************************)
(* C20.  The cursor index of a ChunkStream or HeightsStream never exceeds  *)
(* the volume, and once it equals the volume every further call of next    *)
(* returns end-of-stream without reading or consuming a byte and without   *)
(* changing the index.                                                     *)
(***************************************************************************)
AtVolume == pc = "stream" /\ stream.index = StreamVolume(stream)

C20_CursorStopsAtVolume ==
    /\ [](pc = "stream" => stream.index <= StreamVolume(stream))
    /\ [][(AtVolume /\ pc' = "stream")
            => (result' = End /\ reader' = reader /\ stream' = stream)]_vars

\* next was called on a stream that had yielded every item
C20_Witness ==
    /\ AtVolume /\ result = End /\ stream.kind = "Heights"
    /\ called.element = StreamVolume(stream) + 1
    /\ Len(yielded) = StreamVolume(stream) /\ StreamVolume(stream) > 1

(***************************************************************************)
(* C21.  collect returns only when the stream is exhausted: a grid that    *)
(* collect produced has as many values as its extent has cells, and its    *)
(* origin and extent are those of the stream, which are the componentwise  *)
(* minimum and the size between the two corners of the request.            *)
(***************************************************************************)
Collected == pc = "collected" /\ result.tag = "Ok"

\* list.len() == size.volume(), or size.area() of a height map
Grid_is_full(grid, checks) ==
    IF grid.kind = "Chunk"
    THEN Let(Size_volume(grid.size, checks), LAMBDA volume :
             ~volume.panic /\ NatOf(Len(grid.list)) = volume.value)
    ELSE NatOf(Len(grid.list)) = Size2D_area(grid.size)

\* C21: every grid that collect returned has list.len() == volume (area for
\* a height map), and the origin and extent of the stream it came from
C21_CollectedGridIsFull ==
    /\ [](Collected
            => /\ Grid_is_full(result.value, overflow_checks)
               /\ result.value.origin = FreshStream.origin
               /\ result.value.size = FreshStream.size)
    /\ [][(pc = "stream" /\ pc' = "collected" /\ result'.tag = "Ok")
            => /\ result'.value.origin = stream.origin
               /\ result'.value.size = stream.size
               /\ result'.value.kind = stream.kind]_vars

\* a chunk of more than one block was collected
C21_Witness ==
    /\ Collected /\ result.value.kind = "Chunk"
    /\ Len(result.value.list) > 1

(***************************************************************************)
(* The typed accessors on their own: a response of three fields, one call  *)
(* of one accessor of ResponseStream.                                      *)
(***************************************************************************)
WireValues == {0 - 3, 0, 12}
WireTerminators == {BYTE_COMMA, BYTE_SEMICOLON, BYTE_NEWLINE}
WireFields == [value : WireValues, terminator : WireTerminators]
\* how many fields a response holds
MaxWire == 3
Wires == [1..MaxWire -> WireFields]

WireFieldBytes(f) == i32_to_string(f.value) \o <<f.terminator>>

\* the bytes of the fields of w after the first n
WireBytesAfter(w, n) ==
    Flatten([j \in 1..(Len(w) - n) |-> WireFieldBytes(w[n + j])])

InitAccessor ==
    /\ overflow_checks \in BOOLEAN
    /\ \E w \in Wires : \E k \in Splits :
          /\ sent = [NoSent EXCEPT !.shape = "fields", !.values = w,
                                   !.bytes = WireBytesAfter(w, 0)]
          /\ reader = BufReader_new(Split(WireBytesAfter(w, 0), k))
    /\ written = <<>>
    /\ stream = NoStream
    /\ result = NoResult
    /\ yielded = <<>>
    /\ called = NoCall
    /\ field = NoField
    /\ pc = "response"

Accessor(name, got) ==
    /\ pc = "response"
    /\ reader' = got.rd
    /\ result' = got.r
    /\ pc' = name
    /\ UNCHANGED <<written, stream, yielded, overflow_checks, sent, field, called>>

call_next_i32 == Accessor("next_i32", next_i32(reader, overflow_checks))

call_final_i32 == Accessor("final_i32", final_i32(reader, overflow_checks))

call_next_block == Accessor("next_block", next_block(reader, overflow_checks))

call_final_block == Accessor("final_block", final_block(reader, overflow_checks))

call_final_coordinate ==
    Accessor("final_coordinate", final_coordinate(reader, overflow_checks))

NextAccessor ==
    \/ call_next_i32
    \/ call_final_i32
    \/ call_next_block
    \/ call_final_block
    \/ call_final_coordinate

SpecAccessor == InitAccessor /\ [][NextAccessor]_vars

\* the terminators an accessor is pinned to, and the width of its fields
Pinned ==
    [next_i32 |-> <<"Comma">>,
     final_i32 |-> <<"Newline">>,
     next_block |-> <<"Comma", "Semicolon">>,
     final_block |-> <<"Comma", "Newline">>,
     final_coordinate |-> <<"Comma", "Comma", "Newline">>]

AccessorTarget(name) ==
    IF name \in {"next_block", "final_block"} THEN "u32" ELSE "i32"

Mismatches(name, w) ==
    {i \in 1..Len(Pinned[name]) :
        Terminator_try_from(w[i].terminator) # Pinned[name][i]}

FirstMismatch(name, w) ==
    CHOOSE i \in Mismatches(name, w) : \A j \in Mismatches(name, w) : i <= j

\* how many fields the accessor has to read: up to the first mismatch
FieldsToRead(name, w) ==
    IF Mismatches(name, w) = {} THEN Len(Pinned[name])
    ELSE FirstMismatch(name, w)

FieldsInRange(name, w) ==
    \A i \in 1..FieldsToRead(name, w) :
        AccessorTarget(name) = "i32" \/ w[i].value >= 0

AccessorValue(name, w) ==
    IF name \in {"next_i32", "final_i32"} THEN w[1].value
    ELSE IF name \in {"next_block", "final_block"}
    THEN [id |-> w[1].value, modifier |-> w[2].value]
    ELSE [x |-> w[1].value, y |-> w[2].value, z |-> w[3].value]

\* C13: each typed accessor succeeds only on its pinned terminator sequence
\* and otherwise fails with UnexpectedTerminator{expected, actual} of the
\* first position that mismatched, having read no later field
C13_AccessorsPinTerminators ==
    (pc \in DOMAIN Pinned /\ FieldsInRange(pc, sent.values))
        => /\ IF Mismatches(pc, sent.values) = {}
              THEN result = Ok(AccessorValue(pc, sent.values), "None")
              ELSE result = UnexpectedTerminator(
                       Pinned[pc][FirstMismatch(pc, sent.values)],
                       Terminator_try_from(
                           sent.values[FirstMismatch(pc, sent.values)].terminator))
           /\ UnreadBytes(reader)
                  = WireBytesAfter(sent.values, FieldsToRead(pc, sent.values))

C13_Witness ==
    /\ pc = "final_coordinate"
    /\ result = UnexpectedTerminator("Comma", "Semicolon")
    /\ Terminator_try_from(sent.values[1].terminator) = "Comma"
    /\ UnreadBytes(reader) = WireBytesAfter(sent.values, 2)

(***************************************************************************)
(* The byte cursor on its own: a source that delivers its bytes in some    *)
(* non-empty reads and then reports the end, and any calls of peek and     *)
(* next.  yielded holds the bytes next has returned, called the last call. *)
(***************************************************************************)
\* how many bytes the source holds
MaxBytes == 4

SourceBytes(n) == [i \in 1..n |-> BYTE_ZERO + i]

\* the reads that cut bytes after the positions of cuts
CutAt(bytes, cuts) ==
    [i \in 1..(Cardinality(cuts) + 1) |->
        SubSeq(bytes,
               1 + (CHOOSE s \in cuts \cup {0} :
                       Cardinality({t \in cuts \cup {0} : t < s}) = i - 1),
               CHOOSE e \in cuts \cup {Len(bytes)} :
                   Cardinality({t \in cuts \cup {Len(bytes)} : t < e}) = i - 1)]

\* every way to deliver bytes in non-empty reads
Deliveries(bytes) ==
    IF bytes = <<>> THEN {<<>>}
    ELSE {CutAt(bytes, cuts) : cuts \in SUBSET (1..(Len(bytes) - 1))}

InitCursor ==
    /\ \E n \in 0..MaxBytes : \E reads \in Deliveries(SourceBytes(n)) :
          /\ sent = [NoSent EXCEPT !.shape = "bytes", !.bytes = SourceBytes(n)]
          /\ reader = BufReader_new(reads)
    /\ overflow_checks \in BOOLEAN
    /\ written = <<>>
    /\ stream = NoStream
    /\ result = NoResult
    /\ yielded = <<>>
    /\ called = NoCall
    /\ field = NoField
    /\ pc = "cursor"

\* what a call of the cursor returns: the byte, or Error::UnexpectedEof
CursorResult(got) ==
    IF got.ok THEN Ok(got.byte, "None") ELSE Err("UnexpectedEof")

reader_peek ==
    /\ pc = "cursor"
    /\ \E got \in {BufReader_peek(reader)} :
          /\ reader' = got.rd
          /\ result' = CursorResult(got)
    /\ called' = [accessor |-> "peek", element |-> 0]
    /\ UNCHANGED <<written, stream, yielded, overflow_checks, sent, field, pc>>

reader_next ==
    /\ pc = "cursor"
    /\ \E got \in {BufReader_next(reader)} :
          /\ reader' = got.rd
          /\ result' = CursorResult(got)
          /\ yielded' = IF got.ok THEN Append(yielded, got.byte) ELSE yielded
    /\ called' = [accessor |-> "next", element |-> 0]
    /\ UNCHANGED <<written, stream, overflow_checks, sent, field, pc>>

NextCursor == reader_peek \/ reader_next

SpecCursor == InitCursor /\ [][NextCursor]_vars

\* C14: the cursor delivers the source's bytes once each and in order,
\* however the source splits them into reads, and peek returns the byte the
\* following next (or peek) returns, without consuming it
C14_CursorDeliversInOrder ==
    /\ [](pc = "cursor" => yielded \o UnreadBytes(reader) = sent.bytes)
    /\ [][(pc = "cursor" /\ called.accessor = "peek" /\ result.tag = "Ok")
             => result' = result]_vars
    /\ [][(pc = "cursor" /\ called'.accessor = "peek") => yielded' = yielded]_vars

C14_Witness ==
    /\ pc = "cursor" /\ Len(reader.inner) = 0 /\ reader.length = 1
    /\ Len(yielded) = MaxBytes /\ yielded = sent.bytes
    /\ called.accessor = "next"

\* C15: peek and next fail with UnexpectedEof exactly when the buffer is
\* exhausted and the source returns zero bytes on the refill; the failing
\* call leaves index and length unchanged and returns no byte
C15_EofExactlyAtExhaustion ==
    [][pc = "cursor"
          => /\ (result'.tag # "Ok")
                    <=> (reader.index >= reader.length /\ reader.inner = <<>>)
             /\ result'.tag # "Ok"
                    => /\ result' = Err("UnexpectedEof")
                       /\ reader'.index = reader.index
                       /\ reader'.length = reader.length
                       /\ yielded' = yielded]_vars

C15_Witness ==
    /\ pc = "cursor" /\ result = Err("UnexpectedEof")
    /\ Len(yielded) > 0 /\ reader.index = reader.length
    /\ called.accessor = "next"

(***************************************************************************)
(* The decoder on a field the source ends in: the source delivers the      *)
(* bytes of the field before its terminator, or fewer, and then reports    *)
(* the end.                                                                *)
(***************************************************************************)
InitTruncated ==
    /\ field \in Fields
    /\ overflow_checks \in BOOLEAN
    /\ \E n \in 0..(Len(FieldBytes(field)) - 1) : \E k \in Splits :
          /\ sent = [NoSent EXCEPT !.shape = "truncated",
                                   !.bytes = SubSeq(FieldBytes(field), 1, n)]
          /\ reader = BufReader_new(Split(SubSeq(FieldBytes(field), 1, n), k))
    /\ written = <<>>
    /\ stream = NoStream
    /\ result = NoResult
    /\ yielded = <<>>
    /\ called = NoCall
    /\ pc = "field"

SpecTruncated == InitTruncated /\ [][NextRead]_vars

\* C16: when the source ends before the terminator of the field has been
\* read (after the sign, inside the digits, after the point, inside the
\* fraction) the read fails with UnexpectedEof and returns no value
\* It fails: "2147483648" without a terminator aborts in a build with
\* overflow checks.
\* the bytes delivered are the beginning of a field with a digit run
BeginsNumericField ==
    /\ sent.shape = "truncated"
    /\ field.digits # <<>>
       \/ Len(sent.bytes) <= (IF field.sign = "none" THEN 0 ELSE 1)

C16_TruncatedIsEof ==
    (pc \in {"i32", "u32"} /\ BeginsNumericField)
        => result = Err("UnexpectedEof")

(***************************************************************************)
(* A stream dropped, and the next command on the same connection.           *)
(***************************************************************************)
HeightLocations == {Coordinate2D_new(0 - 1, MaxCoord)}

HeightResponses(location) ==
    {[command |-> "world.getHeight", a |-> location, b |-> location,
      shape |-> "scalars", values |-> <<h>>, bytes |-> ScalarsBytes(<<h>>, 1, 0)] :
        h \in {0 - 64, 70}}

\* Connection::get_height.  A live stream borrows the connection, so the
\* call is the end of the stream: it is never used again, and neither
\* ChunkStream nor HeightsStream has a Drop that touches the reader.  The
\* response arrives in one delivery
get_height ==
    /\ pc \in {"idle", "stream"}
    /\ result.tag # "Panic"
    /\ \E location \in HeightLocations :
       \E response \in HeightResponses(location) :
          /\ written' = written \o Connection_send(CMD_GET_HEIGHT, <<location>>)
          /\ sent' = response
          /\ \E height \in {final_i32(
                                [Connection_recv(reader) EXCEPT
                                    !.inner = @ \o Split(response.bytes, 0)],
                                overflow_checks)} :
                 /\ reader' = height.rd
                 /\ result' = height.r
    /\ stream' = NoStream
    /\ pc' = "returned"
    /\ UNCHANGED <<yielded, called, overflow_checks, field>>

NextDrop ==
    \/ get_blocks_stream
    \/ get_heights_stream
    \/ stream_next
    \/ get_height

SpecDrop == Init /\ [][NextDrop]_vars

\* the bytes of response s from its j-th value on
RemainderFrom(s, j) ==
    IF s.shape = "blocks" THEN BlocksBytes(SubSeq(s.values, j, Len(s.values)))
    ELSE IF s.shape = "semicolons"
    THEN SemicolonsBytes(SubSeq(s.values, j, Len(s.values)))
    ELSE ScalarsBytes(s.values, j,
                      IF s.shape = "rows"
                      THEN Coordinate2D_size_between(s.a, s.b, FALSE).z ELSE 0)

\* the bytes that close an item of response s
ItemClosers(s) ==
    IF s.shape \in {"blocks", "semicolons"} THEN {BYTE_SEMICOLON, BYTE_NEWLINE}
    ELSE {BYTE_COMMA, BYTE_SEMICOLON, BYTE_NEWLINE}

\* the number of the first value of the response sent of which a byte is
\* unread: one more than the items closed so far
FirstUnread ==
    1 + Cardinality({i \in 1..(Len(sent.bytes) - Len(UnreadBytes(reader))) :
                        sent.bytes[i] \in ItemClosers(sent)})

\* the connection still holds the response sent from its j-th value on,
\* whole
HoldsFrom(j) ==
    j \in 1..Len(sent.values) /\ RemainderFrom(sent, j) = UnreadBytes(reader)

\* the first field of response s from its j-th value on, with the byte
\* that closes it
FirstFieldFrom(s, j) ==
    IF s.shape \in {"blocks", "semicolons"}
    THEN [value |-> s.values[j].id, terminator |-> "Comma"]
    ELSE [value |-> s.values[j],
          terminator |->
              IF j = Len(s.values) THEN "Newline"
              ELSE IF s.shape = "rows"
                      /\ j % Coordinate2D_size_between(s.a, s.b, FALSE).z = 0
              THEN "Semicolon"
              ELSE "Comma"]

\* what a read of one i32 that must end at Newline makes of field f
AsHeight(f) ==
    IF f.terminator = "Newline" THEN Ok(f.value, "None")
    ELSE UnexpectedTerminator("Newline", f.terminator)

\* get_height answers with the first field of the earlier response, from its
\* j-th value on, and leaves the rest of it and all of its own response
AnswersFromEarlier(j) ==
    /\ result' = AsHeight(FirstFieldFrom(sent, j))
    /\ UnreadBytes(reader') =
           SubSeq(UnreadBytes(reader),
                  Len(i32_to_string(FirstFieldFrom(sent, j).value)) + 2,
                  Len(UnreadBytes(reader)))
           \o sent'.bytes

\* get_height answers with its own response and leaves nothing
AnswersFromOwn ==
    /\ result' = Ok(sent'.values[1], "None")
    /\ UnreadBytes(reader') = <<>>

\* get_height is called where a stream was live: the stream is dropped
HeightAfterDrop == pc = "stream" /\ pc' = "returned"

\* the dropped stream had yielded fewer items than its volume
DroppedEarly == Len(yielded) < Len(sent.values)

(***************************************************************************)
(* C19.  As stated: when a stream is dropped after yielding fewer than     *)
(* volume items, the next command on the connection decodes the unread     *)
(* remainder of the earlier response, not its own response: it returns a   *)
(* value of the earlier response or a terminator error.                    *)
(***************************************************************************)
C19_EarlyDropDesynchronizes ==
    [][(HeightAfterDrop /\ DroppedEarly)
          => (HoldsFrom(FirstUnread) /\ AnswersFromEarlier(FirstUnread))]_vars

\* C19 amended: nothing skips what the connection still holds when a stream
\* is dropped.  The next command decodes from the first unread byte: when a
\* remainder of the earlier response is unread it answers with the first
\* field of that remainder (its value, or UnexpectedTerminator when the
\* field does not end at Newline) and leaves the rest of the remainder and
\* its whole own response unread; when nothing is unread it answers with
\* its own response.  With fewer than volume items yielded nothing is
\* unread only after a call of next that failed.
C19_DropLeavesRemainder ==
    [][HeightAfterDrop
          => /\ IF UnreadBytes(reader) = <<>> THEN AnswersFromOwn
                ELSE HoldsFrom(FirstUnread) /\ AnswersFromEarlier(FirstUnread)
             /\ (DroppedEarly /\ UnreadBytes(reader) = <<>>)
                   => called.element > Len(yielded)]_vars

C19_Witness ==
    /\ pc = "returned"
    /\ result = Ok(1, "None")
    /\ sent.values = <<70>>
    /\ UnreadBytes(reader) = sent.bytes

(***************************************************************************)
(* Whole operations that decode a response of several fields: get_blocks   *)
(* and get_heights, which collect the stream, and get_player_position,     *)
(* which reads three fields with final_coordinate.                         *)
(***************************************************************************)
\* "player.getPos"
CMD_GET_POS == <<112, 108, 97, 121, 101, 114, 46, 103, 101, 116, 80, 111, 115>>

\* the three fields of a position, each closed by any terminator
PositionWires == [1..Len(Pinned.final_coordinate) -> WireFields]

get_player_position ==
    /\ pc = "idle"
    /\ \E w \in PositionWires : \E k \in Splits :
          /\ written' = written \o Connection_send(CMD_GET_POS, <<>>)
          /\ sent' = [NoSent EXCEPT !.command = "player.getPos",
                                    !.shape = "fields", !.values = w,
                                    !.bytes = WireBytesAfter(w, 0)]
          /\ \E coord \in {final_coordinate(
                               [Connection_recv(reader) EXCEPT
                                   !.inner = @ \o Split(WireBytesAfter(w, 0), k)],
                               overflow_checks)} :
                 /\ reader' = coord.rd
                 /\ result' = coord.r
    /\ stream' = NoStream
    /\ pc' = "position"
    /\ UNCHANGED <<yielded, called, overflow_checks, field>>

NextAbort == get_blocks \/ get_heights \/ get_player_position

SpecAbort == Init /\ [][NextAbort]_vars

\* the terminators the operation expects after the fields it reads, in order
PinnedOfSent ==
    IF sent.command = "player.getPos" THEN Pinned.final_coordinate
    ELSE IF sent.command = "world.getBlocksWithData"
    THEN [j \in 1..(2 * StreamVolume(FreshStream)) |->
             IF j % 2 = 1 THEN "Comma" ELSE "Semicolon"]
    ELSE [j \in 1..StreamVolume(FreshStream) |->
             IF j < StreamVolume(FreshStream) THEN "Comma" ELSE "Newline"]

\* where the fields of the response sent end, in order
FieldEndsOfSent ==
    SelectSeq([i \in 1..Len(sent.bytes) |-> i],
              LAMBDA i : IsTerminator(sent.bytes[i]))

\* the fields that are closed by another terminator than the expected one
FailingFields(pinned, ends) ==
    {j \in 1..Len(pinned) : Terminator_try_from(sent.bytes[ends[j]]) # pinned[j]}

FirstFailing(failing) == CHOOSE j \in failing : \A m \in failing : j <= m

FirstFailingField == FirstFailing(FailingFields(PinnedOfSent, FieldEndsOfSent))

Decoded == pc \in {"collected", "position"}

\* C27: a field that fails inside collect or final_coordinate ends the
\* operation: its error is the result, the bytes after the failing field
\* stay unread, and the result carries no grid or value
C27_DecodeErrorAborts ==
    Decoded
        => Let(<<PinnedOfSent, FieldEndsOfSent>>, LAMBDA s :
           Let(FailingFields(s[1], s[2]), LAMBDA failing :
               /\ result.tag \in {"Ok", "Err"}
               /\ result.tag = "Err" <=> failing # {}
               /\ result.tag = "Err"
                     => /\ result = UnexpectedTerminator(
                                        s[1][FirstFailing(failing)],
                                        Terminator_try_from(
                                            sent.bytes[s[2][FirstFailing(failing)]]))
                        /\ UnreadBytes(reader)
                               = SubSeq(sent.bytes, s[2][FirstFailing(failing)] + 1,
                                        Len(sent.bytes))))

\* collect failed on a field in the middle of the response, after it had
\* decoded an item
C27_Witness ==
    /\ pc = "collected" /\ result.tag = "Err"
    /\ FirstFailingField > 1
    /\ UnreadBytes(reader) # <<>>

(***************************************************************************)
(* Outbound commands.  Command builds the line of a command from a name    *)
(* and arguments; Connection::send writes it from a fixed name and a list  *)
(* of Arguments; the line-based connection formats it around               *)
(* sanitize_string.                                                        *)
(***************************************************************************)
is_valid_command_name(name) ==
    /\ name # <<>>
    /\ \A i \in 1..Len(name) : name[i] \in (97..122) \cup (65..90) \cup {BYTE_DOT}
    /\ name[1] # BYTE_DOT
    /\ name[Len(name)] # BYTE_DOT

\* Command::new without its assertion
Command_new_unchecked(name) ==
    [command |-> name \o <<BYTE_LPAREN>>, arg_count |-> 0]

Command_new(name) ==
    IF ~is_valid_command_name(name)
    THEN Panic("string cannot be used as command name")
    ELSE [command |-> name \o <<BYTE_LPAREN>>, arg_count |-> 0]

\* arg is [str |-> a string] or [int |-> an i32]
Arg_push_to_command(arg, command) ==
    IF "str" \in DOMAIN arg THEN Arg_str_push_to_command(arg.str, command)
    ELSE Arg_i32_push_to_command(arg.int, command)

Command_arg(self, arg) ==
    [command |-> Arg_push_to_command(
                     arg,
                     IF self.arg_count > 0 THEN self.command \o <<BYTE_COMMA>>
                     ELSE self.command),
     arg_count |-> self.arg_count + 1]

Command_arg_int(self, int) == Command_arg(self, [int |-> int])

Command_arg_string(self, string) == Command_arg(self, [str |-> string])

Command_arg_coordinate(self, coordinate) ==
    Command_arg(Command_arg(Command_arg(self, [int |-> coordinate.x]),
                            [int |-> coordinate.y]),
                [int |-> coordinate.z])

Command_arg_block(self, block) ==
    Command_arg(Command_arg(self, [int |-> block.id]), [int |-> block.modifier])

Command_build(self) == self.command \o <<BYTE_RPAREN, BYTE_NEWLINE>>

\* "chat.post"
CMD_CHAT_POST == <<99, 104, 97, 116, 46, 112, 111, 115, 116>>

\* "player.doCommand"
CMD_DO_COMMAND ==
    <<112, 108, 97, 121, 101, 114, 46, 100, 111, 67, 111, 109, 109, 97, 110, 100>>

\* "world.setBlock"
CMD_SET_BLOCK ==
    <<119, 111, 114, 108, 100, 46, 115, 101, 116, 66, 108, 111, 99, 107>>

\* how long a message is at most
MaxString == 3
\* tab, newline, the characters at both ends of the range that is kept and
\* the ones next to them, ')' and a character beyond ASCII
SendChars ==
    {CHAR_TAB, BYTE_NEWLINE, CHAR_SPACE - 1, CHAR_SPACE, BYTE_RPAREN,
     CHAR_TILDE, CHAR_TILDE + 1, 233}
\* "Hel)\nlo"
TestMessage == <<72, 101, 108, 41, 10, 108, 111>>
SendStrings == UNION {[1..n -> SendChars] : n \in 0..MaxString} \cup {TestMessage}
SendLocations == {[x |-> 0 - m, y |-> 0, z |-> 12 * m] : m \in 0..MaxCoord}
SendBlocks == {[id |-> 1, modifier |-> 8], [id |-> 36, modifier |-> 0]}
\* "chat.post", "a", ".a", "a.", "a\n", ""
CommandNames ==
    {CMD_CHAT_POST, <<97>>, <<BYTE_DOT, 97>>, <<97, BYTE_DOT>>,
     <<97, BYTE_NEWLINE>>, <<>>}

InitSend ==
    /\ reader = BufReader_new(<<>>)
    /\ written = <<>>
    /\ stream = NoStream
    /\ result = NoResult
    /\ yielded = <<>>
    /\ called = NoCall
    /\ overflow_checks \in BOOLEAN
    /\ \E message \in SendStrings : sent = [NoSent EXCEPT !.values = message]
    /\ field = NoField
    /\ pc = "idle"

\* one call that sends the command named by name
Sends(operation, name, bytes, a, b) ==
    /\ pc = "idle"
    /\ written' = written \o bytes
    /\ sent' = [sent EXCEPT !.a = a, !.b = b]
    /\ called' = [accessor |-> operation, element |-> name]
    /\ result' = Ok(0, "None")
    /\ pc' = operation
    /\ UNCHANGED <<reader, stream, yielded, overflow_checks, field>>

post_to_chat ==
    Sends("post_to_chat", CMD_CHAT_POST,
          Connection_send(CMD_CHAT_POST, <<[string |-> sent.values]>>),
          <<>>, <<>>)

do_command ==
    Sends("do_command", CMD_DO_COMMAND,
          Connection_send(CMD_DO_COMMAND, <<[string |-> sent.values]>>),
          <<>>, <<>>)

set_block ==
    \E location \in SendLocations : \E block \in SendBlocks :
        Sends("set_block", CMD_SET_BLOCK,
              Connection_send(CMD_SET_BLOCK, <<location, block>>),
              location, block)

\* post_to_chat of the line-based connection
line_post_to_chat ==
    Sends("line_post_to_chat", CMD_CHAT_POST,
          CMD_CHAT_POST \o <<BYTE_LPAREN>> \o sanitize_string(sent.values)
          \o <<BYTE_RPAREN, BYTE_NEWLINE>>,
          <<>>, <<>>)

\* Command::new(name).arg_string(..).arg_coordinate(..).arg_block(..).build()
command_build ==
    /\ pc = "idle"
    /\ \E name \in CommandNames : \E location \in SendLocations :
       \E block \in SendBlocks :
          /\ sent' = [sent EXCEPT !.a = location, !.b = block]
          /\ called' = [accessor |-> "command_build", element |-> name]
          /\ \E command \in {Command_new(name)} :
                result' = IF "tag" \in DOMAIN command THEN command
                          ELSE Ok(Command_build(
                                      Command_arg_block(
                                          Command_arg_coordinate(
                                              Command_arg_string(command, sent.values),
                                              location),
                                          block)),
                                  "None")
    /\ pc' = "command_build"
    /\ UNCHANGED <<reader, written, stream, yielded, overflow_checks, field>>

NextSend ==
    \/ post_to_chat
    \/ do_command
    \/ set_block
    \/ line_post_to_chat
    \/ command_build

SpecSend == InitSend /\ [][NextSend]_vars

\* the characters of a string that a sanitiser is to keep, newline as space
IsKept(ch) == ch \in {CHAR_TAB, BYTE_NEWLINE} \cup (CHAR_SPACE..CHAR_TILDE)

Kept(string) ==
    [i \in 1..Len(SelectSeq(string, IsKept)) |->
        IF SelectSeq(string, IsKept)[i] = BYTE_NEWLINE THEN CHAR_SPACE
        ELSE SelectSeq(string, IsKept)[i]]

\* the string argument as the three sanitisers write it
Sanitized(string) ==
    <<Sanitizer_write_str(string), Arg_str_push_to_command(string, <<>>),
      sanitize_string(string)>>

\* the argument bytes of the line that a call with a string argument wrote
StringArgumentWritten ==
    SubSeq(written, Len(called.element) + 2, Len(written) - 2)

\* C28: the sanitisers keep, in order, tab and the characters 0x20..0x7e,
\* write a space for every newline and drop the rest; their output holds no
\* newline and no control character but tab; sanitising it again changes
\* nothing; Sanitizer, Arg for &str and sanitize_string agree
C28_SanitizersAgree ==
    /\ \A i \in 1..3 :
          /\ Sanitized(sent.values)[i] = Kept(sent.values)
          /\ Sanitized(Sanitized(sent.values)[i])[i] = Sanitized(sent.values)[i]
          /\ \A k \in 1..Len(Sanitized(sent.values)[i]) :
                Sanitized(sent.values)[i][k] \in {CHAR_TAB} \cup (CHAR_SPACE..CHAR_TILDE)
    /\ pc = "line_post_to_chat" => StringArgumentWritten = Kept(sent.values)

\* a message with a newline, a character that is dropped and one that is
\* kept was posted
C28_Witness ==
    /\ pc = "line_post_to_chat"
    /\ \E i, j, k \in 1..Len(sent.values) :
          /\ i < j /\ j < k
          /\ sent.values[i] = BYTE_RPAREN
          /\ sent.values[j] = BYTE_NEWLINE
          /\ sent.values[k] > CHAR_TILDE
    /\ StringArgumentWritten = <<BYTE_RPAREN, CHAR_SPACE>>

\* the line that the call serialized
Serialized == IF pc = "command_build" THEN result.value ELSE written

HasSerialized ==
    \/ pc \in {"post_to_chat", "do_command", "set_block", "line_post_to_chat"}
    \/ pc = "command_build" /\ result.tag = "Ok"

\* the arguments of the call as they are to appear between the commas
ArgumentParts ==
    (IF pc = "set_block" THEN <<>> ELSE <<Kept(sent.values)>>)
    \o (IF pc \in {"set_block", "command_build"}
        THEN <<i32_to_string(sent.a.x), i32_to_string(sent.a.y),
               i32_to_string(sent.a.z), i32_to_string(sent.b.id),
               i32_to_string(sent.b.modifier)>>
        ELSE <<>>)

JoinedByCommas(parts) ==
    Flatten([i \in 1..Len(parts) |->
                IF i = 1 THEN parts[i] ELSE <<BYTE_COMMA>> \o parts[i]])

\* C29: a serialized command is its name, "(", the arguments joined by
\* single commas, ")" and a newline, a coordinate written as x,y,z and a
\* block as id,modifier; whatever the string argument holds, the line has
\* exactly one newline, its last byte
C29_OneCommandLine ==
    HasSerialized
        => /\ Serialized = called.element \o <<BYTE_LPAREN>>
                           \o JoinedByCommas(ArgumentParts)
                           \o <<BYTE_RPAREN, BYTE_NEWLINE>>
           /\ Cardinality({i \in 1..Len(Serialized) :
                              Serialized[i] = BYTE_NEWLINE}) = 1
           /\ Serialized[Len(Serialized)] = BYTE_NEWLINE

\* post_to_chat("Hel)\nlo") wrote "chat.post(Hel) lo)\n"
C29_Witness ==
    /\ pc = "post_to_chat" /\ sent.values = TestMessage
    /\ written = CMD_CHAT_POST
                 \o <<BYTE_LPAREN, 72, 101, 108, 41, CHAR_SPACE, 108, 111,
                      BYTE_RPAREN, BYTE_NEWLINE>>

(***************************************************************************)
(* Corners.  size_between and min of Coordinate and Coordinate2D on their  *)
(* own, for corners anywhere in the range of i32: sent.a and sent.b are    *)
(* the corners, result what the call returned.                             *)
(***************************************************************************)
\* components at both ends of i32, around zero, and two that differ by 2^31
EdgeValues == {I32_MIN, 0 - 2, 0 - 1, 0, 1, I32_MAX}
EdgeCorners2 == [x : EdgeValues, z : EdgeValues]
EdgeCorners3 == [x : EdgeValues, y : {0, 1}, z : {0 - 2, I32_MAX}]

InitCorners ==
    /\ reader = BufReader_new(<<>>)
    /\ written = <<>>
    /\ stream = NoStream
    /\ result = NoResult
    /\ yielded = <<>>
    /\ called = NoCall
    /\ overflow_checks \in BOOLEAN
    /\ \E c \in (EdgeCorners2 \X EdgeCorners2) \cup (EdgeCorners3 \X EdgeCorners3) :
          sent = [NoSent EXCEPT !.a = c[1], !.b = c[2]]
    /\ field = NoField
    /\ pc = "idle"

\* a call and its outcome
Returns(operation, outcome) ==
    /\ pc = "idle"
    /\ result' = outcome
    /\ pc' = operation
    /\ UNCHANGED <<reader, written, stream, yielded, called, overflow_checks,
                   sent, field>>

\* the struct a call returned, or its abort
Returned(operation, value) ==
    Returns(operation, IF IsPanic(value) THEN value ELSE Ok(value, "None"))

IsCoordinate2D(c) == "y" \notin DOMAIN c

size_between ==
    /\ ~IsCoordinate2D(sent.a)
    /\ Returned("size_between",
                Coordinate_size_between(sent.a, sent.b, overflow_checks))

size_between_2d ==
    /\ IsCoordinate2D(sent.a)
    /\ Returned("size_between",
                Coordinate2D_size_between(sent.a, sent.b, overflow_checks))

min ==
    /\ ~IsCoordinate2D(sent.a)
    /\ Returned("min", Coordinate_min(sent.a, sent.b))

min_2d ==
    /\ IsCoordinate2D(sent.a)
    /\ Returned("min", Coordinate2D_min(sent.a, sent.b))

NextCorners == size_between \/ size_between_2d \/ min \/ min_2d

SpecCorners == InitCorners /\ [][NextCorners]_vars

\* the natural number a - i32::MIN
AboveMin(a) == IF a >= 0 THEN NatAdd(TWO31, NatOf(a)) ELSE NatOf(a - I32_MIN)

\* |a - b| + 1
CellsOnAxis(a, b) ==
    NatAdd(IF a < b THEN NatSub(AboveMin(b), AboveMin(a))
           ELSE NatSub(AboveMin(a), AboveMin(b)),
           NatOf(1))

\* C26: every component of size_between is |a - b| + 1, at least 1, for
\* corners anywhere in i32: the subtraction and the + 1 neither wrap nor abort
C26_SizeBetweenIsExact ==
    pc = "size_between"
        => /\ result.tag = "Ok"
           /\ \A axis \in DOMAIN sent.a :
                 /\ u32_as_usize(result.value[axis])
                        = CellsOnAxis(sent.a[axis], sent.b[axis])
                 /\ NatLess(<<>>, u32_as_usize(result.value[axis]))

\* the call with the corners exchanged
SizeBetweenExchanged ==
    IF IsCoordinate2D(sent.a)
    THEN Coordinate2D_size_between(sent.b, sent.a, overflow_checks)
    ELSE Coordinate_size_between(sent.b, sent.a, overflow_checks)

MinExchanged ==
    IF IsCoordinate2D(sent.a) THEN Coordinate2D_min(sent.b, sent.a)
    ELSE Coordinate_min(sent.b, sent.a)

\* C25: size_between and min give the same with the corners exchanged, min
\* is the least of the two corners on every axis, and from it the other
\* corner is extent - 1 away on every axis
C25_CornersAreExchangeable ==
    /\ pc = "size_between"
          => /\ result.tag = "Ok"
             /\ result.value = SizeBetweenExchanged
             /\ \A axis \in DOMAIN sent.a :
                   u32_as_usize(result.value[axis])
                       = CellsOnAxis(Min(sent.a[axis], sent.b[axis]),
                                     Max(sent.a[axis], sent.b[axis]))
    /\ pc = "min"
          => /\ result.tag = "Ok"
             /\ result.value = MinExchanged
             /\ \A axis \in DOMAIN sent.a :
                   result.value[axis] = Min(sent.a[axis], sent.b[axis])

(***************************************************************************)
(* Grids anywhere in the world.  get_blocks and get_heights between        *)
(* corners near the ends of i32 and between corners far apart, then        *)
(* get_offset and get_worldspace on the grid that was collected: called    *)
(* holds the accessor and its coordinate, yielded what it returned.        *)
(***************************************************************************)
FarPairs3 ==
    {<<[x |-> 1, y |-> 1, z |-> 1], [x |-> 2, y |-> 1, z |-> 1]>>,
     <<[x |-> I32_MAX, y |-> 0, z |-> 0], [x |-> I32_MAX - 1, y |-> 0, z |-> 1]>>,
     <<[x |-> I32_MIN, y |-> 0, z |-> 0], [x |-> I32_MIN + 1, y |-> 0, z |-> 0]>>,
     <<[x |-> 0, y |-> 0, z |-> 0], [x |-> 65535, y |-> 65535, z |-> 0]>>,
     <<[x |-> 0, y |-> 0, z |-> 0],
       [x |-> 4194303, y |-> 2097151, z |-> 2097151]>>}

FarPairs2 ==
    {<<[x |-> 1, z |-> 1], [x |-> 2, z |-> 1]>>,
     <<[x |-> I32_MAX, z |-> 0 - 1], [x |-> I32_MAX - 1, z |-> 0]>>,
     <<[x |-> I32_MIN, z |-> 0], [x |-> I32_MIN, z |-> 1]>>}

\* the box has few enough cells for the peer's whole answer
IsSmallBox(a, b) ==
    NatLess(NatMul(CellsOnAxis(a.x, b.x),
                   NatMul(CellsOnAxis(a.y, b.y), CellsOnAxis(a.z, b.z))),
            NatOf(9))

\* the peer's answer; of a box too large to answer, its first block
FarBlocksResponses(a, b) ==
    IF IsSmallBox(a, b) THEN BlocksResponses(a, b)
    ELSE {[command |-> "world.getBlocksWithData", a |-> a, b |-> b,
           shape |-> "semicolons", values |-> BlockValues(1, base),
           bytes |-> SemicolonsBytes(BlockValues(1, base))] :
              base \in BlockBases}

get_blocks_far ==
    /\ pc = "idle"
    /\ \E c \in FarPairs3 : \E response \in FarBlocksResponses(c[1], c[2]) :
          Connection_get_blocks(c[1], c[2], response, 0)

get_heights_far ==
    /\ pc = "idle"
    /\ \E c \in FarPairs2 : \E response \in HeightsResponses(c[1], c[2]) :
          Connection_get_heights(c[1], c[2], response, 0)

Grid_get_worldspace(grid, c, checks) ==
    IF grid.kind = "Chunk" THEN Chunk_get_worldspace(grid, c, checks)
    ELSE Heights_get_worldspace(grid, c, checks)

GridValues == {I32_MIN, 0 - 1, 0, 1, 2, I32_MAX - 1, I32_MAX}

GridCoordinates(grid) ==
    IF grid.kind = "Chunk" THEN [x : GridValues, y : {0, 1}, z : {0, 1}]
    ELSE [x : GridValues, z : {0 - 1, 0, 1}]

\* an accessor of the collected grid
Accessed(accessor, c, returned) ==
    /\ called' = [accessor |-> accessor, element |-> c]
    /\ yielded' = <<returned>>
    /\ pc' = accessor
    /\ UNCHANGED <<reader, written, stream, result, overflow_checks, sent, field>>

get_offset ==
    /\ pc = "collected"
    /\ result.tag = "Ok"
    /\ \E c \in GridCoordinates(result.value) :
          Accessed("get_offset", c,
                   Grid_get_offset(result.value, c, overflow_checks))

get_worldspace ==
    /\ pc = "collected"
    /\ result.tag = "Ok"
    /\ \E c \in GridCoordinates(result.value) :
          Accessed("get_worldspace", c,
                   Grid_get_worldspace(result.value, c, overflow_checks))

NextGrid == get_blocks_far \/ get_heights_far \/ get_offset \/ get_worldspace

SpecGrid == Init /\ [][NextGrid]_vars

\* c is in [0, size) on every axis
InExtent(c, size) ==
    \A axis \in DOMAIN c :
        /\ 0 <= c[axis]
        /\ NatLess(NatOf(c[axis]), u32_as_usize(size[axis]))

\* z + (x + y * size.x) * size.z of an offset of natural numbers; without y
\* for an area
RowMajor(offset, size) ==
    IF "y" \in DOMAIN size
    THEN NatAdd(offset.z,
                NatMul(NatAdd(offset.x, NatMul(offset.y, u32_as_usize(size.x))),
                       u32_as_usize(size.z)))
    ELSE NatAdd(offset.z, NatMul(offset.x, u32_as_usize(size.z)))

\* list[index], where the list has it
ElementAt(list, index) ==
    IF NatLess(index, NatOf(Len(list))) THEN Some(list[IntOf(index) + 1])
    ELSE [tag |-> "Missing"]

\* c is in the box between the corners
InBox(c, a, b) ==
    \A axis \in DOMAIN c :
        /\ Min(a[axis], b[axis]) <= c[axis]
        /\ c[axis] <= Max(a[axis], b[axis])

\* C24: get_offset(c) is None exactly for c outside [0, extent) and
\* list[offset_to_index(c)] otherwise; get_worldspace(c) is Some, the element
\* at c - origin, for every c in the box between the corners and None for
\* every c outside it
C24_AccessorsCoverTheBox ==
    /\ pc = "get_offset"
          => yielded[1]
                = IF InExtent(called.element, result.value.size)
                  THEN ElementAt(result.value.list,
                                 RowMajor([axis \in DOMAIN called.element |->
                                              NatOf(called.element[axis])],
                                          result.value.size))
                  ELSE None
    /\ pc = "get_worldspace"
          => yielded[1]
                = IF InBox(called.element, sent.a, sent.b)
                  THEN ElementAt(result.value.list,
                                 RowMajor([axis \in DOMAIN called.element |->
                                              NatSub(AboveMin(called.element[axis]),
                                                     AboveMin(Min(sent.a[axis],
                                                                  sent.b[axis])))],
                                          result.value.size))
                  ELSE None

(***************************************************************************)
(* Extents.  index_to_offset, offset_to_index, contains and volume of      *)
(* Size, Size2D and the Size of height_map on their own, for extents and   *)
(* indexes anywhere in their types: sent.command names the type,           *)
(* sent.shape is the extent, sent.values the index (a usize) and sent.a    *)
(* the coordinate handed in; result is what the call returned.             *)
(***************************************************************************)
\* components of an extent as u32 words: small ones, 2^30, 2^31 and 2^32 - 1
NarrowWords == {1, 2, 1073741824}
WideWords == {1, 2, 3, 1073741824, I32_MIN, 0 - 1}

Extents ==
    {[type |-> "Size", size |-> size] :
        size \in [x : NarrowWords, y : NarrowWords, z : WideWords]}
    \cup {[type |-> t, size |-> size] :
             t \in {"Size2D", "height_map::Size"},
             size \in [x : NarrowWords, z : WideWords]}

MaxIndex == 5

Indexes ==
    {NatOf(k) : k \in 0..MaxIndex}
    \cup {NatOf(I32_MAX), TWO31, NatAdd(TWO31, NatOf(1))}

OffsetsOf(type) ==
    IF type = "Size2D" THEN [x : {0, 1}, z : {0 - 1, 0, I32_MAX}]
    ELSE [x : {0, 1}, y : {0, 16}, z : {0 - 1, 0, I32_MAX}]

InitExtent ==
    /\ reader = BufReader_new(<<>>)
    /\ written = <<>>
    /\ stream = NoStream
    /\ result = NoResult
    /\ yielded = <<>>
    /\ called = NoCall
    /\ overflow_checks \in BOOLEAN
    /\ \E e \in Extents : \E index \in Indexes : \E c \in OffsetsOf(e.type) :
          sent = [NoSent EXCEPT !.command = e.type, !.shape = e.size,
                                !.values = index, !.a = c]
    /\ field = NoField
    /\ pc = "idle"

Extent_index_to_offset(type, size, index) ==
    IF type = "Size" THEN Size_index_to_offset(size, index)
    ELSE IF type = "Size2D" THEN Size2D_index_to_offset(size, index)
    ELSE HeightMapSize_index_to_coordinate(size, index)

Extent_offset_to_index(type, size, c, checks) ==
    IF type = "Size" THEN Size_offset_to_index(size, c, checks)
    ELSE IF type = "Size2D" THEN Size2D_offset_to_index(size, c, checks)
    ELSE HeightMapSize_coordinate_to_index(size, c, checks)

Extent_contains(type, size, c) ==
    IF type = "Size" THEN Size_contains(size, c)
    ELSE IF type = "Size2D" THEN Size2D_contains(size, c)
    ELSE HeightMapSize_contains(size, c)

\* volume of a Size, area of a Size2D
Extent_volume(type, size, checks) ==
    IF type = "Size" THEN Size_volume(size, checks)
    ELSE Value(Size2D_area(size))

\* the usize a call returned, or its abort
Counted(operation, res) ==
    Returns(operation, IF res.panic THEN Aborted(res) ELSE Ok(res.value, "None"))

index_to_offset ==
    Returned("index_to_offset",
             Extent_index_to_offset(sent.command, sent.shape, sent.values))

offset_to_index ==
    Counted("offset_to_index",
            Extent_offset_to_index(sent.command, sent.shape, sent.a,
                                   overflow_checks))

contains ==
    Returns("contains",
            Ok(Extent_contains(sent.command, sent.shape, sent.a), "None"))

volume ==
    /\ sent.command # "height_map::Size"
    /\ Counted("volume", Extent_volume(sent.command, sent.shape, overflow_checks))

NextExtent == index_to_offset \/ offset_to_index \/ contains \/ volume

SpecExtent == InitExtent /\ [][NextExtent]_vars

\* the number of cells of an extent
Cells(size) ==
    IF "y" \in DOMAIN size
    THEN NatMul(u32_as_usize(size.x),
                NatMul(u32_as_usize(size.y), u32_as_usize(size.z)))
    ELSE NatMul(u32_as_usize(size.x), u32_as_usize(size.z))

\* c is in [0, size) on every axis of the extent
InExtentOf(size, c) ==
    \A axis \in DOMAIN size :
        /\ 0 <= c[axis]
        /\ NatLess(NatOf(c[axis]), u32_as_usize(size[axis]))

\* C22: for an index below the volume, index_to_offset gives an offset inside
\* [0, extent) on every axis which offset_to_index takes back to the index
C22_IndexRoundTrip ==
    (pc = "index_to_offset" /\ NatLess(sent.values, Cells(sent.shape)))
        => /\ result.tag = "Ok"
           /\ InExtentOf(sent.shape, result.value)
           /\ Extent_offset_to_index(sent.command, sent.shape, result.value,
                                     overflow_checks)
                 = Value(sent.values)

\* C23: for an offset the extent contains, offset_to_index is below volume
\* and index_to_offset takes it back to the offset
C23_ContainedIndexIsBelowVolume ==
    (/\ pc = "offset_to_index"
     /\ sent.command # "height_map::Size"
     /\ Extent_contains(sent.command, sent.shape, sent.a))
        => /\ result.tag = "Ok"
           /\ Let(Extent_volume(sent.command, sent.shape, overflow_checks),
                  LAMBDA size : ~size.panic /\ NatLess(result.value, size.value))
           /\ Extent_index_to_offset(sent.command, sent.shape, result.value)
                 = sent.a

\* the offset after o in the order in which z varies fastest, then x, then y
IsNextOffset(o, n) ==
    IF n.z # 0
    THEN /\ o.z < I32_MAX /\ n.z = o.z + 1
         /\ \A axis \in DOMAIN o \ {"z"} : n[axis] = o[axis]
    ELSE IF n.x # 0 \/ "y" \notin DOMAIN o
    THEN /\ o.x < I32_MAX /\ n.x = o.x + 1
         /\ \A axis \in DOMAIN o \ {"x", "z"} : n[axis] = o[axis]
    ELSE o.y < I32_MAX /\ n.y = o.y + 1

\* C30: index 0 is the all-zero offset, and from an index to the next, both
\* below volume, the offset advances by one in z; when z returns to 0, by
\* one in x; when x returns to 0 too, by one in y
C30_ZVariesFastest ==
    (pc = "index_to_offset" /\ sent.command # "height_map::Size")
        => /\ (sent.values = <<>> /\ NatLess(<<>>, Cells(sent.shape)))
                 => /\ result.tag = "Ok"
                    /\ \A axis \in DOMAIN result.value : result.value[axis] = 0
           /\ NatLess(NatAdd(sent.values, NatOf(1)), Cells(sent.shape))
                 => /\ result.tag = "Ok"
                    /\ IsNextOffset(result.value,
                                    Extent_index_to_offset(
                                        sent.command, sent.shape,
                                        NatAdd(sent.values, NatOf(1))))

(***************************************************************************)
(* The end test of ChunkStream::next against Size::volume.                 *)
(***************************************************************************)
\* C37: the u32 product of the end test is volume() for every extent, so a
\* chunk stream neither aborts on the product nor ends before volume() items
C37_EndTestIsVolume ==
    (pc = "collected" /\ sent.command = "world.getBlocksWithData")
        => /\ result.tag = "Panic"
                 => result.error # "attempt to multiply with overflow"
           /\ Let(<<ChunkStream_volume(FreshStream, overflow_checks),
                    Size_volume(FreshStream.size, overflow_checks)>>,
                  LAMBDA v : /\ ~v[1].panic /\ ~v[2].panic
                             /\ u32_as_usize(v[1].value) = v[2].value)
           /\ (result.tag = "Ok" /\ called = NoCall)
                 => NatOf(Len(result.value.list))
                        = Size_volume(FreshStream.size, overflow_checks).value

(***************************************************************************)
(* The cursor of a stream against the items it has yielded.                *)
(***************************************************************************)
\* C33: a next that returns an error leaves the index as it was, so the
\* index is the number of items yielded, and a stream reports its end only
\* after volume items
C33_ErrorKeepsCursor ==
    /\ [][(pc = "stream" /\ pc' = "stream" /\ result'.tag = "Err")
            => stream'.index = stream.index]_vars
    /\ [](pc = "stream" => stream.index = Len(yielded))
    /\ []((pc = "stream" /\ result = End)
            => Len(yielded) = StreamVolume(stream))

(***************************************************************************)
(* The player's position.  set_player_tile_position(p), then               *)
(* get_player_tile_position() answered by a peer that reports the          *)
(* position it was last set to: sent.a is p, sent.bytes the peer's         *)
(* answer.  The line_ operations are those of the line-based connection of *)
(* lib.rs, whose answers are parsed with parse::<f32>().                   *)
(***************************************************************************)
\* "player.setPos"
CMD_SET_POS == <<112, 108, 97, 121, 101, 114, 46, 115, 101, 116, 80, 111, 115>>

\* position.y += 1; self.set_player_position(position): the bytes written
Connection_set_player_tile_position(position, checks) ==
    Checked(i32_add(position.y, 1, checks), LAMBDA y :
        Value(Connection_send(CMD_SET_POS, <<[position EXCEPT !.y = y]>>)))

\* coord.y -= 1 on the coordinate that get_player_position returned
Connection_get_player_tile_position(rd, checks) ==
    Try(final_coordinate(Connection_recv(rd), checks), LAMBDA coord :
        Let(i32_sub(coord.r.value.y, 1, checks), LAMBDA y :
            [rd |-> coord.rd,
             r |-> IF y.panic THEN Aborted(y)
                   ELSE Ok([coord.r.value EXCEPT !.y = y.value], "None")]))

\* format!("player.setPos({},{},{})\n", pos.x, pos.y + 1, pos.z)
line_set_player_tile_position_bytes(pos, checks) ==
    Checked(i32_add(pos.y, 1, checks), LAMBDA y :
        Value(CMD_SET_POS \o <<BYTE_LPAREN>> \o i32_to_string(pos.x)
              \o <<BYTE_COMMA>> \o i32_to_string(y) \o <<BYTE_COMMA>>
              \o i32_to_string(pos.z) \o <<BYTE_RPAREN, BYTE_NEWLINE>>))

\* str::split(','): the pieces of a line between its commas
RECURSIVE str_split(_, _)
str_split(line, piece) ==
    IF line = <<>> THEN <<piece>>
    ELSE IF Head(line) = BYTE_COMMA THEN <<piece>> \o str_split(Tail(line), <<>>)
    ELSE str_split(Tail(line), Append(piece, Head(line)))

\* str::trim of a piece whose white space is at its end
RECURSIVE str_trim(_)
str_trim(piece) ==
    IF piece # <<>> /\ piece[Len(piece)] \in {BYTE_NEWLINE, CHAR_SPACE, CHAR_TAB}
    THEN str_trim(SubSeq(piece, 1, Len(piece) - 1))
    ELSE piece

\* the distance between neighbouring f32 values at the magnitude m >= 2^24
RECURSIVE f32_ulp(_)
f32_ulp(m) == IF m < 16777216 THEN 1 ELSE 2 * f32_ulp(m \div 2)

\* the magnitude m < 2^31 rounded to the nearest f32, ties to even, then
\* cast with `as i32`, which saturates
f32_as_i32(m, negative) ==
    Let(f32_ulp(m), LAMBDA ulp :
    Let((m \div ulp)
        + (IF 2 * (m % ulp) > ulp \/ (2 * (m % ulp) = ulp /\ (m \div ulp) % 2 = 1)
           THEN 1 ELSE 0), LAMBDA q :
        IF q = 16777216 /\ ulp = 128
        THEN IF negative THEN I32_MIN ELSE I32_MAX
        ELSE IF negative THEN 0 - q * ulp ELSE q * ulp))

\* the digits of a run of ASCII digits as a natural number
RECURSIVE NatFromDigits(_)
NatFromDigits(text) ==
    IF text = <<>> THEN <<>>
    ELSE NatAdd(NatMul(NatFromDigits(SubSeq(text, 1, Len(text) - 1)), NatOf(10)),
                NatOf(text[Len(text)] - BYTE_ZERO))

\* parse::<f32>().ok()?.floor() as i32 of a piece that is an integer in
\* decimal; None where the piece is no number
IntegerList_parse(piece) ==
    Let(IF piece # <<>> /\ Head(piece) \in {BYTE_MINUS, BYTE_PLUS}
        THEN Tail(piece) ELSE piece, LAMBDA digits :
        IF digits = <<>> \/ \E i \in 1..Len(digits) : ~IsDigit(digits[i])
        THEN None
        ELSE Let(NatFromDigits(digits), LAMBDA m :
                 IF ~NatLess(m, TWO31)
                 THEN Some(IF Head(piece) = BYTE_MINUS THEN I32_MIN ELSE I32_MAX)
                 ELSE Some(f32_as_i32(IntOf(m), Head(piece) = BYTE_MINUS))))

\* coordinate_from_response(&response).expect("malformed server response")
coordinate_from_response(line) ==
    Let(str_split(line, <<>>), LAMBDA pieces :
        IF Len(pieces) < 3 THEN Panic("malformed server response")
        ELSE Let([i \in 1..3 |-> IntegerList_parse(str_trim(pieces[i]))],
                 LAMBDA n :
                 IF \E i \in 1..3 : n[i] = None
                 THEN Panic("malformed server response")
                 ELSE Ok([x |-> n[1].value, y |-> n[2].value, z |-> n[3].value],
                         "None")))

\* the position of the model: y at both ends of i32, around zero, and past
\* the integers that f32 holds exactly
PlayerPositions ==
    [x : {0 - 3, 16777217}, y : {I32_MIN, 0 - 1, 0, 64, I32_MAX - 1, I32_MAX},
     z : {0, 7}]

\* the text of the position between the parentheses of the last setPos
RECURSIVE LastArguments(_)
LastArguments(bytes) ==
    IF bytes[Len(bytes)] = BYTE_LPAREN THEN <<>>
    ELSE IF bytes[Len(bytes)] \in {BYTE_RPAREN, BYTE_NEWLINE}
    THEN LastArguments(SubSeq(bytes, 1, Len(bytes) - 1))
    ELSE Append(LastArguments(SubSeq(bytes, 1, Len(bytes) - 1)), bytes[Len(bytes)])

\* a set operation wrote its command, or aborted before it wrote
SetPosition(operation, p, command) ==
    /\ pc = "idle"
    /\ written' = IF command.panic THEN written ELSE written \o command.value
    /\ sent' = [NoSent EXCEPT
                   !.command = "player.setPos", !.a = p,
                   !.bytes = IF command.panic THEN <<>>
                             ELSE LastArguments(command.value) \o <<BYTE_NEWLINE>>]
    /\ result' = IF command.panic THEN Aborted(command) ELSE Ok(0, "None")
    /\ called' = [accessor |-> operation, element |-> 0]
    /\ pc' = IF command.panic THEN "aborted" ELSE "set"
    /\ UNCHANGED <<reader, stream, yielded, overflow_checks, field>>

set_player_tile_position ==
    \E p \in PlayerPositions :
        SetPosition("set_player_tile_position", p,
                    Connection_set_player_tile_position(p, overflow_checks))

line_set_player_tile_position ==
    \E p \in PlayerPositions :
        SetPosition("line_set_player_tile_position", p,
                    line_set_player_tile_position_bytes(p, overflow_checks))

\* the peer answers player.getPos with the position it was set to
get_player_tile_position ==
    /\ pc = "set"
    /\ called.accessor = "set_player_tile_position"
    /\ written' = written \o Connection_send(CMD_GET_POS, <<>>)
    /\ \E k \in Splits :
       \E coord \in {Connection_get_player_tile_position(
                        [reader EXCEPT !.inner = @ \o Split(sent.bytes, k)],
                        overflow_checks)} :
          /\ reader' = coord.rd
          /\ result' = coord.r
    /\ pc' = "got"
    /\ UNCHANGED <<stream, yielded, called, overflow_checks, sent, field>>

line_get_player_tile_position ==
    /\ pc = "set"
    /\ called.accessor = "line_set_player_tile_position"
    /\ written' = written \o CMD_GET_POS \o <<BYTE_LPAREN, BYTE_RPAREN, BYTE_NEWLINE>>
    /\ result' = coordinate_from_response(sent.bytes)
    /\ pc' = "got"
    /\ UNCHANGED <<reader, stream, yielded, called, overflow_checks, sent, field>>

NextPlayer ==
    \/ set_player_tile_position
    \/ line_set_player_tile_position
    \/ get_player_tile_position
    \/ line_get_player_tile_position

SpecPlayer == Init /\ [][NextPlayer]_vars

\* C31: set_player_tile_position(p) sends p with y one higher, and
\* get_player_tile_position, answered with that position, returns p
C31_TilePositionRoundTrip ==
    /\ pc # "aborted"
    /\ pc = "set"
          => /\ sent.a.y < I32_MAX
             /\ sent.bytes = i32_to_string(sent.a.x) \o <<BYTE_COMMA>>
                                \o i32_to_string(sent.a.y + 1) \o <<BYTE_COMMA>>
                                \o i32_to_string(sent.a.z) \o <<BYTE_NEWLINE>>
    /\ pc = "got" => (result.tag = "Ok" /\ result.value = sent.a)

(***************************************************************************)
(* One connection over several operations.  sent.values is what the        *)
(* server answers, one response for each query in order, and sent.bytes    *)
(* those responses one after the other; the transport (reader.inner)       *)
(* delivers them cut anywhere, two responses in one delivery included.     *)
(* yielded holds what the queries have returned so far.                    *)
(***************************************************************************)
\* "world.setBlocks"
CMD_SET_BLOCKS ==
    <<119, 111, 114, 108, 100, 46, 115, 101, 116, 66, 108, 111, 99, 107, 115>>

HeightAnswer(h) ==
    [query |-> "get_height", values |-> <<h>>,
     bytes |-> ScalarsBytes(<<h>>, 1, 0)]

PositionAnswer(p) ==
    [query |-> "get_player_position", values |-> <<p.x, p.y, p.z>>,
     bytes |-> ScalarsBytes(<<p.x, p.y, p.z>>, 1, 0)]

\* what the query is to return for answer a
Answered(a) ==
    IF a.query = "get_height" THEN Ok(a.values[1], "None")
    ELSE Ok(Coordinate_new(a.values[1], a.values[2], a.values[3]), "None")

Answers ==
    {HeightAnswer(0 - 64), HeightAnswer(70),
     PositionAnswer(Coordinate_new(0 - 3, 64, 7))}

AnswerScripts ==
    {<<a>> : a \in Answers} \cup {<<a, b>> : a \in Answers, b \in Answers}

AnswerBytes(script) == Flatten([i \in 1..Len(script) |-> script[i].bytes])

\* the deliveries of the transport: everything in one, cut once anywhere,
\* cut where a response ends, and byte by byte
Transports(script) ==
    {CutAt(AnswerBytes(script), cuts) :
        cuts \in {{}}
                 \cup {{i} : i \in 1..(Len(AnswerBytes(script)) - 1)}
                 \cup {{Len(script[1].bytes)} \cap (1..(Len(AnswerBytes(script)) - 1))}
                 \cup {1..(Len(AnswerBytes(script)) - 1)}}

InitPending ==
    /\ \E script \in AnswerScripts :
          /\ sent = [NoSent EXCEPT !.shape = "script", !.values = script,
                                   !.bytes = AnswerBytes(script)]
          /\ \E transport \in Transports(script) :
                reader = BufReader_new(transport)
    /\ written = <<>>
    /\ stream = NoStream
    /\ result = NoResult
    /\ yielded = <<>>
    /\ called = NoCall
    /\ overflow_checks \in BOOLEAN
    /\ field = NoField
    /\ pc = "idle"

\* a send that throws away what the reader holds
Connection_write_discarding(self, bytes) ==
    [stream |-> self.stream \o bytes, reader |-> BufReader_new(self.reader.inner)]

\* Connection::send on self = (stream, reader): write_fmt on self.stream
Connection_write(self, bytes) == [self EXCEPT !.stream = @ \o bytes]

\* an operation that expects no response: command is the line it sends, or
\* the abort of the arithmetic before the send
NoResponse(operation, command) ==
    /\ called' = [accessor |-> operation, element |-> Len(yielded)]
    /\ IF command.panic
       THEN /\ result' = Aborted(command)
            /\ pc' = "aborted"
            /\ UNCHANGED <<written, reader>>
       ELSE /\ \E self \in {Connection_write([stream |-> written, reader |-> reader],
                                             command.value)} :
                  /\ written' = self.stream
                  /\ reader' = self.reader
            /\ result' = Ok(0, "None")
            /\ pc' = "sent"
    /\ UNCHANGED <<stream, yielded, overflow_checks, sent, field>>

pending_post_to_chat ==
    /\ pc \in {"idle", "queried"}
    /\ NoResponse("post_to_chat",
                  Value(Connection_send(CMD_CHAT_POST, <<[string |-> TestMessage]>>)))

pending_do_command ==
    /\ pc \in {"idle", "queried"}
    /\ NoResponse("do_command",
                  Value(Connection_send(CMD_DO_COMMAND, <<[string |-> TestMessage]>>)))

pending_set_player_position ==
    /\ pc \in {"idle", "queried"}
    /\ NoResponse("set_player_position",
                  Value(Connection_send(CMD_SET_POS, <<Coordinate_new(0 - 3, 64, 7)>>)))

pending_set_player_tile_position ==
    /\ pc \in {"idle", "queried"}
    /\ \E y \in {64, I32_MAX} :
          NoResponse("set_player_tile_position",
                     Connection_set_player_tile_position(Coordinate_new(0 - 3, y, 7),
                                                         overflow_checks))

pending_set_block ==
    /\ pc \in {"idle", "queried"}
    /\ NoResponse("set_block",
                  Value(Connection_send(CMD_SET_BLOCK,
                                        <<Coordinate_new(0, 0, 12),
                                          [id |-> 1, modifier |-> 8]>>)))

pending_set_blocks ==
    /\ pc \in {"idle", "queried"}
    /\ NoResponse("set_blocks",
                  Value(Connection_send(CMD_SET_BLOCKS,
                                        <<Coordinate_new(0, 0, 12),
                                          Coordinate_new(0 - 1, 0, 0),
                                          [id |-> 36, modifier |-> 0]>>)))

\* a query: the command is written, then the response is decoded from
\* recv(), which is the reader of the connection
Queried(operation, command, res) ==
    /\ Len(yielded) < Len(sent.values)
    /\ sent.values[Len(yielded) + 1].query = operation
    /\ written' = written \o command
    /\ reader' = res.rd
    /\ result' = res.r
    /\ yielded' = Append(yielded, res.r)
    /\ called' = [accessor |-> operation, element |-> Len(yielded) + 1]
    /\ pc' = "queried"
    /\ UNCHANGED <<stream, overflow_checks, sent, field>>

pending_get_height ==
    /\ pc \in {"idle", "queried", "sent"}
    /\ Queried("get_height",
               Connection_send(CMD_GET_HEIGHT, <<Coordinate2D_new(0 - 1, MaxCoord)>>),
               final_i32(Connection_recv(reader), overflow_checks))

pending_get_player_position ==
    /\ pc \in {"idle", "queried", "sent"}
    /\ Queried("get_player_position", Connection_send(CMD_GET_POS, <<>>),
               final_coordinate(Connection_recv(reader), overflow_checks))

NextPending ==
    \/ pending_post_to_chat
    \/ pending_do_command
    \/ pending_set_player_position
    \/ pending_set_player_tile_position
    \/ pending_set_block
    \/ pending_set_blocks
    \/ pending_get_height
    \/ pending_get_player_position

SpecPending == InitPending /\ [][NextPending]_vars

\* line is one command: its only newline is its last byte
IsOneCommand(line) ==
    /\ line # <<>>
    /\ {i \in 1..Len(line) : line[i] = BYTE_NEWLINE} = {Len(line)}

\* C39: an operation that expects no response only writes one command: it
\* reads no byte from the transport and leaves the BufReader of the
\* connection (buffer, index, length) as it was, so no byte of a pending or
\* later response is consumed; when the operation aborts before its send it
\* writes nothing and reads nothing
C39_NoResponseOnlyWrites ==
    [][pc' \in {"sent", "aborted"}
          => /\ reader' = reader
             /\ UnreadBytes(reader') = UnreadBytes(reader)
             /\ pc' = "sent"
                   => /\ Len(written') > Len(written)
                      /\ SubSeq(written', 1, Len(written)) = written
                      /\ IsOneCommand(SubSeq(written', Len(written) + 1,
                                             Len(written')))
             /\ pc' = "aborted" => written' = written]_vars

\* set_blocks was called while the whole of a later response lay in the
\* buffer of the reader
C39_Witness ==
    /\ pc = "sent" /\ called.accessor = "set_blocks"
    /\ Len(yielded) = 1 /\ Len(sent.values) = 2
    /\ reader.index < reader.length
    /\ reader.inner = <<>>
    /\ UnreadBytes(reader) = sent.values[2].bytes

\* C32: over any sequence of queries on one connection, each decoded
\* through its final newline, and however the transport cuts or joins the
\* bytes of the responses, the k-th query decodes the k-th response: what
\* lies beyond the newline of a response stays in the reader for the next
\* operation, and no byte is skipped or read twice
C32_KthDecodesKth ==
    sent.shape = "script"
        => /\ \A k \in 1..Len(yielded) :
                 yielded[k] = Answered(sent.values[k])
           /\ UnreadBytes(reader)
                  = AnswerBytes(SubSeq(sent.values, Len(yielded) + 1,
                                       Len(sent.values)))

\* two responses came in one delivery, and both queries have returned
C32_Witness ==
    /\ pc = "queried" /\ Len(yielded) = 2
    /\ reader.buffer = sent.bytes /\ reader.inner = <<>>
    /\ sent.values = <<HeightAnswer(0 - 64),
                       PositionAnswer(Coordinate_new(0 - 3, 64, 7))>>
    /\ yielded[1] = Ok(0 - 64, "None")
    /\ result = Ok(Coordinate_new(0 - 3, 64, 7), "None")

(***************************************************************************)
(* The rendering of an i32 read back.                                      *)
(***************************************************************************)
RoundTripValues ==
    {I32_MIN, I32_MIN + 1, I32_MAX - 1, I32_MAX}
    \cup ((0 - MaxMagnitude)..MaxMagnitude)

\* the field read is the rendering of v and a terminator
IsRenderingOf(v) ==
    /\ FieldBytes(field) = i32_to_string(v) \o <<field.terminator>>
    /\ Terminator_try_from(field.terminator) # "Invalid"

\* integer after the digit loop has taken digits, with every overflow of
\* "integer *= 10; integer += digit" reported
RECURSIVE Accumulated(_, _)
Accumulated(integer, digits) ==
    IF digits = <<>> THEN [panic |-> FALSE, value |-> integer]
    ELSE Let(accumulate(integer, Head(digits), TRUE), LAMBDA a :
             IF a.panic THEN a ELSE Accumulated(a.value, Tail(digits)))

\* C34: for every i32 v, i32::MIN and i32::MAX included, read::<i32> of the
\* decimal rendering of v followed by a terminator returns v, and the
\* accumulator, built as a magnitude before the sign is applied, does not
\* overflow
C34_DecimalRoundTrip ==
    pc = "i32"
        => \A v \in RoundTripValues :
              IsRenderingOf(v)
                  => /\ result = Ok(v, Terminator_try_from(field.terminator))
                     /\ ~Accumulated(0, field.digits).panic

(***************************************************************************)
(* The byte cursor on sources short and long: the sources of InitCursor,   *)
(* and one that holds more than the buffer takes and offers it at once.    *)
(***************************************************************************)
LongSource == [i \in 1..(BUFFER_SIZE + MaxBytes) |-> BYTE_ZERO + (i % 10)]

InitRefill ==
    /\ \/ \E n \in 0..MaxBytes : \E reads \in Deliveries(SourceBytes(n)) :
             /\ sent = [NoSent EXCEPT !.shape = "bytes", !.bytes = SourceBytes(n)]
             /\ reader = BufReader_new(reads)
       \/ /\ sent = [NoSent EXCEPT !.shape = "long", !.bytes = LongSource]
          /\ reader = BufReader_new(<<LongSource>>)
    /\ overflow_checks \in BOOLEAN
    /\ written = <<>>
    /\ stream = NoStream
    /\ result = NoResult
    /\ yielded = <<>>
    /\ called = NoCall
    /\ field = NoField
    /\ pc = "cursor"

SpecRefill == InitRefill /\ [][NextCursor]_vars

\* the byte under the cursor lies in the buffer, among the bytes of the
\* last refill
CursorOnByte(rd) ==
    /\ rd.index # USIZE_MAX
    /\ rd.index < rd.length
    /\ rd.length = Len(rd.buffer)
    /\ rd.length <= BUFFER_SIZE

\* C35: the cursor of BufReader stays in bounds: after a successful peek
\* index < length <= BUFFER_SIZE; next adds one to index only after a
\* successful peek, so index never leaves usize::MAX by overflow, and the
\* byte returned is buffer[index] with index below the number of bytes the
\* last refill delivered
C35_CursorInBounds ==
    /\ [](pc = "cursor"
            => /\ reader.length = Len(reader.buffer)
               /\ reader.length <= BUFFER_SIZE
               /\ IF reader.index = USIZE_MAX THEN reader.length = 0
                  ELSE reader.index <= reader.length /\ reader.length > 0)
    /\ [][(pc = "cursor" /\ called'.accessor = "peek" /\ result'.tag = "Ok")
             => /\ CursorOnByte(reader')
                /\ result'.value = reader'.buffer[reader'.index + 1]]_vars
    /\ [][(pc = "cursor" /\ called'.accessor = "next" /\ result'.tag = "Ok")
             => /\ reader'.index # USIZE_MAX /\ reader'.index >= 1
                /\ CursorOnByte([reader' EXCEPT !.index = @ - 1])
                /\ result'.value = reader'.buffer[reader'.index]
                /\ reader.index < reader.length
                      => (reader'.index = reader.index + 1
                          /\ reader'.buffer = reader.buffer)]_vars
    /\ [][(pc = "cursor" /\ result'.tag # "Ok")
             => reader'.index = reader.index]_vars

\* the source offered more than the buffer takes: the refill took
\* BUFFER_SIZE bytes of it and left the rest in the source, and next has
\* returned the first byte and moved the cursor by one
C35_Witness ==
    /\ pc = "cursor" /\ sent.shape = "long"
    /\ called.accessor = "next" /\ result.tag = "Ok"
    /\ yielded = <<LongSource[1]>>
    /\ reader.index = 1 /\ reader.length = BUFFER_SIZE
    /\ Len(Flatten(reader.inner)) = MaxBytes

(***************************************************************************)
(* The loops of IntegerStream::read, turn by turn.                         *)
(***************************************************************************)
\* the reader where the digit loop starts: the sign, if any, is consumed
AfterSign(rd) ==
    Let(BufReader_peek(rd), LAMBDA p :
        IF p.ok /\ p.byte \in {BYTE_MINUS, BYTE_PLUS} THEN BufReader_next(p.rd).rd
        ELSE p.rd)

\* the reader where the loop over the decimals starts, <<>> when the read
\* does not come to it
AfterPoint(rd, checks) ==
    Let(take_digits(AfterSign(rd), 0, 0, checks), LAMBDA d :
        IF d.tag # "Break" \/ d.len = 0 THEN <<>>
        ELSE Let(BufReader_peek(d.rd), LAMBDA p :
                 IF p.ok /\ p.byte = BYTE_DOT THEN <<BufReader_next(p.rd).rd>>
                 ELSE <<>>))

\* the digit loop from st ends within n turns, and each turn that stays in
\* the loop has consumed one byte
RECURSIVE DigitTurnsConsume(_, _, _)
DigitTurnsConsume(st, n, checks) ==
    IF st.tag # "Loop" THEN TRUE
    ELSE IF n = 0 THEN FALSE
    ELSE Let(digits_turn(st, checks), LAMBDA after :
             /\ after.tag = "Loop"
                   => Len(UnreadBytes(after.rd)) = Len(UnreadBytes(st.rd)) - 1
             /\ DigitTurnsConsume(after, n - 1, checks))

RECURSIVE DecimalTurnsConsume(_, _)
DecimalTurnsConsume(st, n) ==
    IF st.tag # "Loop" THEN TRUE
    ELSE IF n = 0 THEN FALSE
    ELSE Let(decimals_turn(st), LAMBDA after :
             /\ after.tag = "Loop"
                   => Len(UnreadBytes(after.rd)) = Len(UnreadBytes(st.rd)) - 1
             /\ DecimalTurnsConsume(after, n - 1))

\* both loops of the read that starts at rd take at most one turn for each
\* byte left, and one more to leave
LoopsEnd(rd, checks) ==
    /\ DigitTurnsConsume([rd |-> AfterSign(rd), tag |-> "Loop",
                          integer |-> 0, len |-> 0],
                         Len(UnreadBytes(AfterSign(rd))) + 1, checks)
    /\ \A start \in {AfterPoint(rd, checks)} :
          start # <<>>
              => DecimalTurnsConsume([rd |-> start[1], tag |-> "Loop",
                                      is_integer |-> TRUE],
                                     Len(UnreadBytes(start[1])) + 1)

\* C36: IntegerStream::read terminates on every finite source: each turn of
\* the digit loop and of the loop over the decimals consumes one byte, so
\* the call returns a value or an error after consuming at most the bytes
\* that were left in the source
C36_ReadTerminates ==
    [][pc = "field"
          => /\ LoopsEnd(reader, overflow_checks)
             /\ Len(UnreadBytes(reader')) <= Len(UnreadBytes(reader))
             /\ result'.tag \in {"Ok", "Err"}]_vars

(***************************************************************************)
(* The iterator of a collected Chunk or Heights:                            *)
(*   for item in grid.into_iter() { .. }                                    *)
(* called.element is the index of the iterator; each turn of the loop      *)
(* appends to yielded the item with its value, its positions and what      *)
(* get_offset and get_worldspace return at those positions.                *)
(***************************************************************************)
\* next that takes the index after the increment
Iter_next_incremented(grid, index) ==
    IF index >= Len(grid.list) THEN [item |-> None, index |-> index]
    ELSE [item |-> Some([index |-> index + 1]), index |-> index + 1]

\* Iterator for Iter: the item holds the index before the increment
Iter_next(grid, index) ==
    IF index >= Len(grid.list) THEN [item |-> None, index |-> index]
    ELSE [item |-> Some([index |-> index]), index |-> index + 1]

\* IterItem::block / IterItem::height
IterItem_value(grid, item) ==
    IF item.index < Len(grid.list) THEN grid.list[item.index + 1]
    ELSE Panic("should be valid index in chunk")

IterItem_position_offset(grid, item) ==
    IF grid.kind = "Chunk" THEN Size_index_to_offset(grid.size, NatOf(item.index))
    ELSE Size2D_index_to_offset(grid.size, NatOf(item.index))

\* self.position_offset() + self.chunk.origin
IterItem_position_worldspace(grid, item, checks) ==
    Let(IterItem_position_offset(grid, item), LAMBDA offset :
        IF IsPanic(offset) THEN offset
        ELSE IF grid.kind = "Chunk" THEN Coordinate_add(offset, grid.origin, checks)
        ELSE Coordinate2D_add(offset, grid.origin, checks))

\* the body of the loop for one item
Visited(grid, item, checks) ==
    Let(<<IterItem_position_offset(grid, item),
          IterItem_position_worldspace(grid, item, checks)>>, LAMBDA at :
        [index |-> item.index,
         value |-> IterItem_value(grid, item),
         position_offset |-> at[1],
         position_worldspace |-> at[2],
         get_offset |-> IF IsPanic(at[1]) THEN at[1]
                        ELSE Grid_get_offset(grid, at[1], checks),
         get_worldspace |-> IF IsPanic(at[2]) THEN at[2]
                            ELSE Grid_get_worldspace(grid, at[2], checks)])

iter_next ==
    /\ pc \in {"collected", "iter"}
    /\ result.tag = "Ok"
    /\ \E n \in {Iter_next(result.value,
                           IF pc = "collected" THEN 0 ELSE called.element)} :
          /\ called' = [accessor |-> "iter", element |-> n.index]
          /\ IF n.item = None
             THEN pc' = "iterated" /\ yielded' = yielded
             ELSE /\ pc' = "iter"
                  /\ yielded' = Append(yielded,
                                       Visited(result.value, n.item.value,
                                               overflow_checks))
    /\ UNCHANGED <<reader, written, stream, result, overflow_checks, sent, field>>

NextIter == get_blocks_far \/ get_heights_far \/ get_blocks \/ get_heights \/ iter_next

SpecIter == Init /\ [][NextIter]_vars

\* C38: iterating a collected Chunk or Heights yields list.len() items with
\* the indices 0, 1, .., len - 1 in this order, each once, and for each item
\* get_offset(item.position_offset()) and
\* get_worldspace(item.position_worldspace()) both return the value of the
\* item, which is the element of the list at its index
C38_IterationCoversList ==
    pc \in {"iter", "iterated"}
        => /\ Len(yielded) <= Len(result.value.list)
           /\ pc = "iterated" => Len(yielded) = Len(result.value.list)
           /\ \A k \in 1..Len(yielded) :
                 /\ yielded[k].index = k - 1
                 /\ yielded[k].value = result.value.list[k]
                 /\ yielded[k].get_offset = Some(yielded[k].value)
                 /\ yielded[k].get_worldspace = Some(yielded[k].value)
                 /\ ~IsPanic(yielded[k].position_offset)
                 /\ InExtent(yielded[k].position_offset, result.value.size)
                 /\ InBox(yielded[k].position_worldspace, sent.a, sent.b)

\* the four blocks of the box at the upper end of the x axis have been
\* iterated
C38_Witness ==
    /\ pc = "iterated" /\ Len(yielded) = 4
    /\ result.tag = "Ok" /\ result.value.kind = "Chunk"
    /\ result.value.origin = Coordinate_new(I32_MAX - 1, 0, 0)
    /\ yielded[4].position_worldspace = Coordinate_new(I32_MAX, 0, 1)
    /\ yielded[4].get_worldspace = Some(result.value.list[4])

====
